---- MODULE Spec2Model ----
(***************************************************************************)
(* Apex Capital custodial ledger: the deposit webhook (deposit-webhook.js), *)
(* the user transaction endpoint (ledger-transaction-create.js), the admin  *)
(* status update (admin-transaction-update.js) and the admin balance        *)
(* adjustment (admin-balance-adjust.js), as request handlers running over   *)
(* one shared store.  Every `await` on a store call is one atomic step of   *)
(* a handler; handlers of different requests interleave between steps.      *)
(* Amounts are integers counting the smallest unit the code keeps           *)
(* (toFixed(8)).                                                            *)
(***************************************************************************)
EXTENDS Integers, Sequences, FiniteSets, TLC

\* ------------------------------------------------------------------ bounds
MaxReq == 3          \* requests received in one behaviour
MaxTasks == 2        \* requests in flight at the same time
MaxConf == 3         \* largest confirmation count a payload reports
MaxBalance == 3000   \* balances above this are not explored

\* ------------------------------------------------------- values and domains
NULL == -1                      \* JSON null / a missing numeric field
Users == {"u1"}
Assets == {"BTC", "ETH"}
Slots == 1..MaxTasks
Keys == Users \X Assets

\* deposit-create.js: thresholds per asset before crediting
CONFIRM_THRESHOLDS == [a \in Assets |-> IF a = "BTC" THEN 3 ELSE 2]

\* JavaScript `a || b` on a nullable number: null, undefined and 0 are falsy
OrNum(a, b) == IF a = NULL \/ a = 0 THEN b ELSE a
\* JavaScript `a || null` on a nullable string
OrStr(a, b) == IF a = "null" \/ a = "" THEN b ELSE a

VARIABLES
  users,            \* users table: user -> "absent" | kyc_status
  strategy_allocations,  \* strategy_allocations table: <<user, strategy>> -> usd_value
  balances,         \* balances table: <<user, asset>> -> amount, NULL = no row
  deposit_charges,  \* deposit_charges table, a sequence of rows (id = index)
  transactions,     \* transactions table, a sequence of rows (id = index)
  audit_log,        \* audit_log table, a sequence of rows
  tasks,            \* slot -> the request being handled there, or Idle
  last,             \* the request that returned last, with its response
  nreq,             \* requests received so far
  credits,          \* history: charge id -> webhook deltas applied for it
  refunds,          \* history: transaction id -> refund deltas applied for it
  applied           \* history: key -> sum of the deltas upsert_balance applied

store == <<users, strategy_allocations, balances, deposit_charges, transactions, audit_log>>
hist == <<credits, refunds, applied>>
vars == <<users, strategy_allocations, balances, deposit_charges, transactions, audit_log,
          tasks, last, nreq, credits, refunds, applied>>

Idle == [kind |-> "idle"]
NoLast == [kind |-> "none"]
Resp(code, body) == [code |-> code, body |-> body]

Active == {t \in Slots : tasks[t].kind # "idle"}
Quiescent == Active = {}

\* A handler returns: the slot is freed and the response recorded.
AdminKinds == {"admin-update", "admin-adjust", "admin-kyc"}
Return(t, task, resp) ==
  /\ tasks' = [tasks EXCEPT ![t] = Idle]
  /\ last' = IF task.kind = "webhook"
             THEN [kind |-> task.kind, resp |-> resp, req |-> task.req]
             ELSE IF task.kind \in AdminKinds
             THEN [kind |-> task.kind, resp |-> resp, session |-> task.session,
                   method |-> task.method]
             ELSE [kind |-> task.kind, resp |-> resp]

\* A guard that checks the session but not its isAdmin flag
requireAdmin_NoAdminCheck(method, session, t, task, handler) ==
  IF method = "OPTIONS" THEN Return(t, task, Resp(204, ""))
  ELSE IF session = "none" THEN Return(t, task, Resp(401, "Unauthorised"))
  ELSE IF method # "POST" THEN Return(t, task, Resp(405, "Method Not Allowed"))
  ELSE handler

\* requireAdmin (_admin-guard.js lines 12-30): getSession(event) is null without
\* a valid cookie (_db.js lines 248-272); the handler runs for an admin session
\* only, and each wrapped handler starts by refusing every method but POST
requireAdmin(method, session, t, task, handler) ==
  IF method = "OPTIONS" THEN Return(t, task, Resp(204, ""))
  ELSE IF session = "none" THEN Return(t, task, Resp(401, "Unauthorised"))
  ELSE IF session # "admin" THEN Return(t, task, Resp(403, "Forbidden"))
  ELSE IF method # "POST" THEN Return(t, task, Resp(405, "Method Not Allowed"))
  ELSE handler

\* ------------------------------------------------------------------- store
\* Overwrite the fields of row that patch names (PostgREST PATCH body).
Patch(row, patch) ==
  [f \in DOMAIN row |-> IF f \in DOMAIN patch THEN patch[f] ELSE row[f]]

\* supabase.patch('/rest/v1/deposit_charges', `id=eq.${id}`, body)
PatchCharge(rows, id, patch) ==
  [i \in DOMAIN rows |-> IF i = id THEN Patch(rows[i], patch) ELSE rows[i]]

\* A lookup without the coinbase_charge_id filter
ChargesByCoinbaseId_NoFilter(rows, cid) == DOMAIN rows

\* supabase.get('/rest/v1/deposit_charges', `coinbase_charge_id=eq.${cid}`)
ChargesByCoinbaseId(rows, cid) ==
  {i \in DOMAIN rows : rows[i].coinbase_charge_id = cid}

\* The Postgres function upsert_balance(p_user_id, p_asset, p_delta): one atomic
\* statement; the row is created at 0 when absent; a negative result, or a
\* delta that is not a number, raises and leaves the row as it was.
upsert_balance(bal, key, delta) ==
  LET b == IF bal[key] = NULL THEN 0 ELSE bal[key] IN
  IF delta = NULL THEN [ok |-> FALSE, error |-> "null delta", bal |-> bal]
  ELSE IF b + delta < 0 THEN [ok |-> FALSE, error |-> "Insufficient balance", bal |-> bal]
  ELSE [ok |-> TRUE, error |-> "", bal |-> [bal EXCEPT ![key] = b + delta]]

\* _db.js auditLog: one row appended to audit_log
AuditRow(userId, action, meta) == [user_id |-> userId, action |-> action, meta |-> meta]

\* ----------------------------------------------------------- webhook input
WEBHOOK_SECRET == "whsec"
HexLen == 64     \* length of a hex SHA-256 digest

\* crypto.createHmac('sha256', key).update(body).digest('hex')
Hmac(key, body) == [key |-> key, body |-> body, len |-> HexLen]
NoSignature == [key |-> "", body |-> "", len |-> 0]      \* header missing: ''
Truncated(sig) == [sig EXCEPT !.len = HexLen - 1]

\* crypto.timingSafeEqual(Buffer.from(a), Buffer.from(b)): throws on a length mismatch
timingSafeEqual(a, b) ==
  IF a.len # b.len THEN "throw" ELSE IF a = b THEN "equal" ELSE "different"

EventTypes == {"charge:created", "charge:pending", "charge:confirmed",
               "charge:failed", "charge:expired", "charge:delayed",
               "charge:resolved", "charge:other"}

\* One entry of data.payments: status, value.crypto.amount, transaction_id and
\* block.confirmations.  The empty list stands for the missing fields.
PayloadAmounts == {NULL, 7}
Payments ==
  [status : {"NEW", "CONFIRMED"},
   amount : PayloadAmounts,
   transaction_id : {"0xab"},
   confirmations : 0..MaxConf]
EmptyPmt ==
  [status |-> "null", amount |-> NULL, transaction_id |-> "null", confirmations |-> NULL]
\* The fields of the chosen payment that the handler reads
Fields(p) ==
  [amount |-> p.amount, transaction_id |-> p.transaction_id,
   confirmations |-> p.confirmations]

\* data.payments: nothing, one payment, or an unconfirmed payment after a confirmed one
PaymentLists ==
  {<<>>} \cup {<<p>> : p \in Payments}
         \cup {<<p, q>> : p \in {x \in Payments : x.status = "CONFIRMED" /\ x.amount = 7},
                          q \in {x \in Payments : x.status = "NEW" /\ x.amount = NULL}}

\* payments[payments.length - 1] || {}
LatestPayment(ps) == IF Len(ps) = 0 THEN EmptyPmt ELSE ps[Len(ps)]
\* payments.find(p => p.status === 'CONFIRMED') || payments[payments.length - 1] || {}
ConfirmedPmt(ps) ==
  LET hits == {i \in DOMAIN ps : ps[i].status = "CONFIRMED"} IN
  IF hits # {} THEN ps[CHOOSE i \in hits : \A j \in hits : i <= j]
  ELSE LatestPayment(ps)

\* The payment the handler of this event type reads
PaymentOf(type, ps) ==
  IF type = "charge:confirmed" THEN Fields(ConfirmedPmt(ps))
  ELSE IF type = "charge:pending" THEN Fields(LatestPayment(ps))
  ELSE Fields(EmptyPmt)

\* parseFloat(confirmedPmt.value?.crypto?.amount || charge.crypto_amount || 0)
CryptoAmount(pmt, charge) == OrNum(OrNum(pmt.amount, charge.crypto_amount), 0)
\* cryptoAmount || charge.crypto_amount
CreditDelta(pmt, charge) == OrNum(CryptoAmount(pmt, charge), charge.crypto_amount)
\* parseInt(confirmedPmt.block?.confirmations || charge.confirm_threshold)
Confirmations(pmt, charge) == OrNum(pmt.confirmations, charge.confirm_threshold)


\* ------------------------------------------------------- ledger-provision-user
\* DEFAULT_ASSETS, as far as the model carries assets
DEFAULT_ASSETS == Assets

DEFAULT_STRATEGIES == {"long_short", "defi_yield", "quant_arb"}

\* Seeding that overwrites the existing rows (resolution=merge-duplicates)
SeedBalances_Merge(bal, u) ==
  [k \in Keys |-> IF k[1] = u /\ k[2] \in DEFAULT_ASSETS THEN 0 ELSE bal[k]]

\* The balance inserts (lines 58-68): a zero row for every default asset that
\* has none; Prefer: resolution=ignore-duplicates leaves an existing row alone
SeedBalances(bal, u) ==
  [k \in Keys |-> IF k[1] = u /\ k[2] \in DEFAULT_ASSETS /\ bal[k] = NULL
                  THEN 0 ELSE bal[k]]

\* The allocation inserts (lines 70-80), with the same resolution
SeedAllocations(alloc, u) ==
  [k \in Users \X DEFAULT_STRATEGIES |->
     IF k[1] = u /\ alloc[k] = NULL THEN 0 ELSE alloc[k]]

\* The handler upserts the user row and inserts a zero balance for every default
\* asset and a zero allocation for every default strategy that has no row, then
\* audits the login.  Its writes only add rows, so it is taken in one step,
\* which may fall between the steps of other requests.
ProvisionUserAt(u) ==
  /\ nreq < MaxReq
  /\ nreq' = nreq + 1
  /\ users' = [users EXCEPT ![u] = IF @ = "absent" THEN "pending" ELSE @]
  /\ balances' = SeedBalances(balances, u)
  /\ strategy_allocations' = SeedAllocations(strategy_allocations, u)
  /\ audit_log' = Append(audit_log, AuditRow(u, "login", "email"))
  /\ last' = [kind |-> "provision", resp |-> Resp(200, "provisioned")]
  /\ UNCHANGED <<deposit_charges, transactions, tasks, credits, refunds, applied>>

ProvisionUser(u) == Quiescent /\ ProvisionUserAt(u)

\* ------------------------------------------------------------ deposit-create
MaxCharges == 1      \* rows of deposit_charges
MaxOpenCharges == 2  \* rows of deposit_charges when requests are concurrent
ChargeAmounts == {NULL, 5}   \* pricing[asset]?.amount || null, as Coinbase priced it

\* The row deposit-create inserts (lines 138-154)
NewCharge(id, u, asset, cryptoAmount) ==
  [id |-> id, coinbase_charge_id |-> id, user_id |-> u, asset |-> asset,
   crypto_amount |-> cryptoAmount, status |-> "pending", confirmations |-> 0,
   confirm_threshold |-> CONFIRM_THRESHOLDS[asset], credited |-> FALSE,
   network_tx |-> "null", transaction_id |-> NULL]

\* An existing pending charge of the same user and asset is returned (reused);
\* otherwise Coinbase creates the charge and the row is inserted and audited.
DepositCreate(u, asset, cryptoAmount) ==
  /\ Quiescent
  /\ nreq < MaxReq
  /\ nreq' = nreq + 1
  /\ LET req == [kind |-> "deposit-create"]
         existing == {i \in DOMAIN deposit_charges :
                        /\ deposit_charges[i].user_id = u
                        /\ deposit_charges[i].asset = asset
                        /\ deposit_charges[i].status = "pending"}
         id == Len(deposit_charges) + 1
     IN IF users[u] = "absent"
        THEN /\ last' = req @@ [resp |-> Resp(401, "Unauthorised")]
             /\ UNCHANGED <<deposit_charges, audit_log>>
        ELSE IF existing # {}
        THEN /\ last' = req @@ [resp |-> Resp(200, "reused")]
             /\ UNCHANGED <<deposit_charges, audit_log>>
        ELSE /\ Len(deposit_charges) < MaxCharges
             /\ deposit_charges' =
                  Append(deposit_charges, NewCharge(id, u, asset, cryptoAmount))
             /\ audit_log' = Append(audit_log, AuditRow(u, "deposit_charge_created", id))
             /\ last' = req @@ [resp |-> Resp(200, "created")]
  /\ UNCHANGED <<users, strategy_allocations, balances, transactions, tasks, credits, refunds, applied>>

\* deposit-create when the audit write fails: auditLog swallows the error
\* (lines 294-297), the charge is inserted and the response is the same
DepositCreateAuditFail(u, asset, cryptoAmount) ==
  /\ Quiescent
  /\ nreq < MaxReq
  /\ nreq' = nreq + 1
  /\ users[u] # "absent"
  /\ \A i \in DOMAIN deposit_charges :
       ~ ( /\ deposit_charges[i].user_id = u
           /\ deposit_charges[i].asset = asset
           /\ deposit_charges[i].status = "pending" )
  /\ Len(deposit_charges) < MaxCharges
  /\ deposit_charges' =
       Append(deposit_charges,
              NewCharge(Len(deposit_charges) + 1, u, asset, cryptoAmount))
  /\ last' = [kind |-> "deposit-create", resp |-> Resp(200, "created")]
  /\ UNCHANGED <<users, strategy_allocations, balances, transactions, audit_log, tasks, credits, refunds,
                 applied>>

\* The handler step by step, for requests handled concurrently.  All requests
\* fall within the hour before expires_at, so an existing pending charge is
\* unexpired (line 73).
MINIMUM_USD == 500
DepositCreateRequests ==
  [session : {"user"}, sub : Users, asset : Assets, amount_usd : {MINIMUM_USD},
   crypto_amount : ChargeAmounts]
  \cup [session : {"none", "user"}, sub : Users, asset : {"BTC", "DOGE"},
        amount_usd : {0, MINIMUM_USD}, crypto_amount : {5}]

\* Lines 38-62: the method, the session, the body, then the user lookup (the
\* first store call)
DepositCreateReceive(t, reqs) ==
  /\ tasks[t].kind = "idle"
  /\ \A s \in Slots : s < t => tasks[s].kind # "idle"
  /\ nreq < MaxReq
  /\ nreq' = nreq + 1
  /\ UNCHANGED <<store, hist>>
  /\ \E req \in reqs :
       LET task == [kind |-> "deposit-create", pc |-> "existing", user_id |-> req.sub,
                    asset |-> req.asset, crypto_amount |-> req.crypto_amount,
                    charge |-> NULL]
       IN IF req.session = "none" THEN Return(t, task, Resp(401, "Unauthorised"))
          ELSE IF req.asset \notin Assets
          THEN Return(t, task, Resp(400, "Unsupported asset"))
          ELSE IF req.amount_usd = 0
          THEN Return(t, task, Resp(400, "amount_usd is required"))
          ELSE IF req.amount_usd < MINIMUM_USD
          THEN Return(t, task, Resp(400, "Minimum deposit"))
          ELSE IF users[req.sub] = "absent"
          THEN Return(t, task, Resp(401, "Unauthorised"))
          ELSE tasks' = [tasks EXCEPT ![t] = task] /\ UNCHANGED last

\* supabase.get('/rest/v1/deposit_charges', user_id, asset, status=eq.pending)
\* (lines 65-68)
PendingCharges(rows, u, asset) ==
  {i \in DOMAIN rows :
     rows[i].user_id = u /\ rows[i].asset = asset /\ rows[i].status = "pending"}

\* The read of the existing pending charges (lines 64-86): one is returned as
\* reused, none sends the handler on to Coinbase and the insert
DepositCreateExisting(t) ==
  LET task == tasks[t]
      existing == PendingCharges(deposit_charges, task.user_id, task.asset)
  IN
  /\ task.kind = "deposit-create" /\ task.pc = "existing"
  /\ IF existing # {}
     THEN Return(t, task, Resp(200, "reused"))
     ELSE tasks' = [tasks EXCEPT ![t].pc = "insert"] /\ UNCHANGED last
  /\ UNCHANGED <<store, nreq, hist>>

\* The Coinbase call answers an error (lines 113-117), or the insert fails
\* (lines 183-186)
DepositCreateFail(t) ==
  LET task == tasks[t] IN
  /\ task.kind = "deposit-create" /\ task.pc = "insert"
  /\ Return(t, task, Resp(502, "Failed to create deposit charge"))
  /\ UNCHANGED <<store, nreq, hist>>

\* The Coinbase call (lines 88-135, no store call) and the insert (lines 137-154)
DepositCreateInsert(t) ==
  LET task == tasks[t]
      id == Len(deposit_charges) + 1
  IN
  /\ task.kind = "deposit-create" /\ task.pc = "insert"
  /\ Len(deposit_charges) < MaxOpenCharges
  /\ deposit_charges' =
       Append(deposit_charges, NewCharge(id, task.user_id, task.asset, task.crypto_amount))
  /\ tasks' = [tasks EXCEPT ![t].pc = "audit", ![t].charge = id]
  /\ UNCHANGED <<users, strategy_allocations, balances, transactions, audit_log, last, nreq, hist>>

\* auditLog({action: 'deposit_charge_created'}) and the response (lines 156-181)
DepositCreateAudit(t) ==
  LET task == tasks[t] IN
  /\ task.kind = "deposit-create" /\ task.pc = "audit"
  /\ audit_log' = Append(audit_log,
                         AuditRow(task.user_id, "deposit_charge_created", task.charge))
  /\ Return(t, task, Resp(200, "created"))
  /\ UNCHANGED <<users, strategy_allocations, balances, deposit_charges, transactions, nreq, hist>>

DepositCreateStep(t) ==
  \/ DepositCreateExisting(t) \/ DepositCreateInsert(t)
  \/ DepositCreateAudit(t) \/ DepositCreateFail(t)

\* ------------------------------------------------------------ deposit-webhook
\* What one request carries: the method, the signature header, the raw body (as
\* what it parses to) and the body the sender signed.
WebhookRequests(types, cids) ==
  LET Good(ts, ps) == [method : {"POST"}, signature : {Hmac(WEBHOOK_SECRET, "body")},
                        json : {"ok"}, type : ts, id : cids, payments : ps]
      paying == {"charge:pending", "charge:confirmed"}
      good == Good(types \cap paying, PaymentLists) \cup Good(types \ paying, {<<>>})
      any == CHOOSE r \in Good(types, {<<>>}) : TRUE
  IN good \cup
     { [any EXCEPT !.method = "GET"],
       [any EXCEPT !.signature = Hmac("other", "body")],
       [any EXCEPT !.signature = Hmac("other", "body"), !.json = "invalid"],
       [any EXCEPT !.signature = Hmac(WEBHOOK_SECRET, "other body")],
       [any EXCEPT !.signature = Truncated(Hmac(WEBHOOK_SECRET, "body"))],
       [any EXCEPT !.signature = NoSignature],
       [any EXCEPT !.json = "invalid"],
       [any EXCEPT !.json = "no event"] }

\* Patches in which charge:created also resets the credited flag
StatusPatch_ResetCredited(type, pmt, charge) ==
  CASE type = "charge:created"   -> [status |-> "pending", credited |-> FALSE]
    [] type = "charge:pending"   ->
         [status |-> "detected", confirmations |-> 0,
          network_tx |-> OrStr(pmt.transaction_id, "null")]
    [] type = "charge:confirmed" ->
         [status |-> "confirming", confirmations |-> Confirmations(pmt, charge),
          network_tx |-> OrStr(pmt.transaction_id, "null")]
    [] type \in {"charge:failed", "charge:expired"} -> [status |-> "failed"]
    [] type = "charge:delayed"   -> [status |-> "underpaid"]
    [] OTHER                     -> [status |-> "resolved"]

\* updateChargeStatus(charge.id, status, extra): the patch each event type sends
StatusPatch(type, pmt, charge) ==
  CASE type = "charge:created"   -> [status |-> "pending"]
    [] type = "charge:pending"   ->
         [status |-> "detected", confirmations |-> 0,
          network_tx |-> OrStr(pmt.transaction_id, "null")]
    [] type = "charge:confirmed" ->
         [status |-> "confirming", confirmations |-> Confirmations(pmt, charge),
          network_tx |-> OrStr(pmt.transaction_id, "null")]
    [] type \in {"charge:failed", "charge:expired"} -> [status |-> "failed"]
    [] type = "charge:delayed"   -> [status |-> "underpaid"]
    [] OTHER                     -> [status |-> "resolved"]

\* The switch without the `if (charge.credited)` return of lines 206-209
FirstCall_IgnoreCredited(type, pmt, charge) ==
  CASE type = "charge:confirmed" ->
         IF Confirmations(pmt, charge) < charge.confirm_threshold THEN "update"
         ELSE "credit"
    [] type \in {"charge:created", "charge:pending", "charge:failed",
                 "charge:expired", "charge:delayed", "charge:resolved"} -> "update"
    [] OTHER -> "return"

\* A switch whose default case marks the charge resolved
FirstCall_DefaultUpdates(type, pmt, charge) ==
  CASE type = "charge:confirmed" ->
         IF charge.credited THEN "return"
         ELSE IF Confirmations(pmt, charge) < charge.confirm_threshold THEN "update"
         ELSE "credit"
    [] OTHER -> "update"

\* The store call the handler makes first once it has read the charge (the switch)
FirstCall(type, pmt, charge) ==
  CASE type = "charge:confirmed" ->
         IF charge.credited THEN "return"
         ELSE IF Confirmations(pmt, charge) < charge.confirm_threshold THEN "update"
         ELSE "credit"
    [] type \in {"charge:created", "charge:pending", "charge:failed",
                 "charge:expired", "charge:delayed", "charge:resolved"} -> "update"
    [] OTHER -> "return"

\* What the handler was called with, apart from the payments: the method, the
\* signature header, what the body parses to, the event type and the charge id
Headers(req) ==
  [method |-> req.method, signature |-> req.signature, json |-> req.json,
   type |-> req.type, id |-> req.id]

\* Lines 114-167: the method, the signature, the body, then the lookup of the
\* charge (the handler's first store call) and the switch on the event type.
\* Nothing before the lookup touches the store, so this is one step.
WebhookReceive(t, reqs) ==
  /\ tasks[t].kind = "idle"
  /\ \A s \in Slots : s < t => tasks[s].kind # "idle"
  /\ nreq < MaxReq
  /\ nreq' = nreq + 1
  /\ UNCHANGED <<store, hist>>
  /\ \E req \in reqs :
       LET pmt == PaymentOf(req.type, req.payments)
           task == [kind |-> "webhook", pc |-> "receive", type |-> req.type,
                    id |-> req.id, pmt |-> pmt, charge |-> NULL, tx |-> NULL,
                    req |-> Headers(req)]
           expectedSig == Hmac(WEBHOOK_SECRET, "body")
           cmp == timingSafeEqual(req.signature, expectedSig)
           found == ChargesByCoinbaseId(deposit_charges, req.id)
           charge == deposit_charges[CHOOSE i \in found : \A j \in found : i <= j]
       IN IF req.method # "POST" THEN Return(t, task, Resp(405, "Method Not Allowed"))
          ELSE IF cmp = "throw" THEN Return(t, task, Resp(500, "uncaught exception"))
          ELSE IF cmp # "equal" THEN Return(t, task, Resp(401, "Invalid signature"))
          ELSE IF req.json = "invalid" THEN Return(t, task, Resp(400, "Invalid JSON"))
          ELSE IF req.json # "ok" THEN Return(t, task, Resp(400, "Missing event type or data"))
          ELSE IF found = {} THEN Return(t, task, Resp(200, "OK"))
          ELSE IF FirstCall(req.type, pmt, charge) = "return"
          THEN Return(t, [task EXCEPT !.charge = charge], Resp(200, "received"))
          ELSE /\ tasks' = [tasks EXCEPT ![t] =
                   [task EXCEPT !.charge = charge,
                                !.pc = FirstCall(req.type, pmt, charge)]]
               /\ UNCHANGED last

\* updateChargeStatus (lines 171, 181, 222, 300, 313, 319)
WebhookUpdate(t) ==
  LET task == tasks[t] IN
  /\ task.kind = "webhook" /\ task.pc = "update"
  /\ deposit_charges' = PatchCharge(deposit_charges, task.charge.id,
                                    StatusPatch(task.type, task.pmt, task.charge))
  /\ IF task.type = "charge:pending"
     THEN tasks' = [tasks EXCEPT ![t].pc = "notify"] /\ UNCHANGED last
     ELSE IF task.type \in {"charge:failed", "charge:expired"}
     THEN tasks' = [tasks EXCEPT ![t].pc = "audit"] /\ UNCHANGED last
     ELSE Return(t, task, Resp(200, "received"))
  /\ UNCHANGED <<users, strategy_allocations, balances, transactions, audit_log, nreq, hist>>

\* A credit that writes the amount into the row instead of adding a delta
CreditCall_Overwrite(bal, key, delta) ==
  [ok |-> TRUE, error |-> "", bal |-> [bal EXCEPT ![key] = delta]]

\* The credit goes through the rpc, never through a write of the row (227-231)
CreditCall(bal, key, delta) == upsert_balance(bal, key, delta)

\* supabase.rpc('upsert_balance', ...) (lines 227-231); a raised error is caught
\* by the handler's catch (lines 330-334)
WebhookCredit(t) ==
  LET task == tasks[t]
      key == <<task.charge.user_id, task.charge.asset>>
      delta == CreditDelta(task.pmt, task.charge)
      r == CreditCall(balances, key, delta)
  IN
  /\ task.kind = "webhook" /\ task.pc = "credit"
  /\ r.ok => r.bal[key] <= MaxBalance
  /\ balances' = r.bal
  /\ IF r.ok
     THEN /\ tasks' = [tasks EXCEPT ![t].pc = "record"]
          /\ credits' = [credits EXCEPT ![task.charge.id] = @ + 1]
          /\ applied' = [applied EXCEPT ![key] = @ + delta]
          /\ UNCHANGED last
     ELSE /\ Return(t, task, Resp(200, "received, error"))
          /\ UNCHANGED <<credits, applied>>
  /\ UNCHANGED <<users, strategy_allocations, deposit_charges, transactions, audit_log, nreq, refunds>>

\* An insert whose failure is swallowed: the handler goes on to the credited patch
WebhookRecord_Swallow(t) ==
  LET task == tasks[t] IN
  /\ task.kind = "webhook" /\ task.pc = "record"
  /\ tasks' = [tasks EXCEPT ![t].pc = "mark"]
  /\ UNCHANGED <<store, last, nreq, hist>>

\* supabase.post('/rest/v1/transactions', ...) (lines 234-245)
WebhookRecord(t) ==
  LET task == tasks[t]
      id == Len(transactions) + 1
  IN
  /\ task.kind = "webhook" /\ task.pc = "record"
  /\ transactions' = Append(transactions,
       [id |-> id, user_id |-> task.charge.user_id, type |-> "deposit",
        asset |-> task.charge.asset, amount |-> CreditDelta(task.pmt, task.charge),
        fee_amount |-> NULL, status |-> "completed",
        tx_hash |-> OrStr(task.pmt.transaction_id, "null"),
        notes |-> <<"coinbase", task.charge.id>>])
  /\ refunds' = Append(refunds, 0)
  /\ tasks' = [tasks EXCEPT ![t].pc = "mark", ![t].tx = id]
  /\ UNCHANGED <<users, strategy_allocations, balances, deposit_charges, audit_log, last, nreq, credits, applied>>

\* A patch that completes the charge without marking it credited
CreditedPatch_StatusOnly(task) ==
  [status |-> "completed",
   confirmations |-> Confirmations(task.pmt, task.charge),
   network_tx |-> OrStr(task.pmt.transaction_id, "null"),
   transaction_id |-> task.tx]

\* A patch that marks the charge credited without the transaction's id
CreditedPatch_NoTx(task) ==
  [status |-> "completed", credited |-> TRUE,
   confirmations |-> Confirmations(task.pmt, task.charge),
   network_tx |-> OrStr(task.pmt.transaction_id, "null"),
   transaction_id |-> NULL]

\* The patch that marks the charge credited (lines 248-259)
CreditedPatch(task) ==
  [status |-> "completed", credited |-> TRUE,
   confirmations |-> Confirmations(task.pmt, task.charge),
   network_tx |-> OrStr(task.pmt.transaction_id, "null"),
   transaction_id |-> task.tx]

WebhookMark(t) ==
  LET task == tasks[t] IN
  /\ task.kind = "webhook" /\ task.pc = "mark"
  /\ deposit_charges' = PatchCharge(deposit_charges, task.charge.id, CreditedPatch(task))
  /\ tasks' = [tasks EXCEPT ![t].pc = "audit"]
  /\ UNCHANGED <<users, strategy_allocations, balances, transactions, audit_log, last, nreq, hist>>

\* What follows the audit call: the notification lookup after a credit, the
\* response after a failed/expired event
AfterAudit(t) ==
  LET task == tasks[t] IN
  IF task.type = "charge:confirmed"
  THEN tasks' = [tasks EXCEPT ![t].pc = "notify"] /\ UNCHANGED last
  ELSE Return(t, task, Resp(200, "received"))

\* auditLog({action: 'deposit_credited' | 'deposit_failed'}) (lines 262-276, 302-307)
WebhookAudit(t) ==
  LET task == tasks[t] IN
  /\ task.kind = "webhook" /\ task.pc = "audit"
  /\ audit_log' = Append(audit_log,
       AuditRow(task.charge.user_id,
                IF task.type = "charge:confirmed" THEN "deposit_credited"
                ELSE "deposit_failed",
                task.charge.id))
  /\ AfterAudit(t)
  /\ UNCHANGED <<users, strategy_allocations, balances, deposit_charges, transactions, nreq, hist>>

\* supabase.get('/rest/v1/users', ...) for the notification, then the response
WebhookNotify(t) ==
  LET task == tasks[t] IN
  /\ task.kind = "webhook" /\ task.pc = "notify"
  /\ Return(t, task, Resp(200, "received"))
  /\ UNCHANGED <<store, nreq, hist>>

\* A store call of the handler fails (an outage): the catch answers 200 with the
\* error (lines 330-334)
WebhookThrow(t) ==
  LET task == tasks[t] IN
  /\ task.kind = "webhook"
  /\ task.pc \in {"update", "credit", "record", "mark", "notify"}
  /\ Return(t, task, Resp(200, "received, error"))
  /\ UNCHANGED <<store, nreq, hist>>

\* The audit write fails: auditLog swallows the error (_db.js lines 294-297)
WebhookAuditFail(t) ==
  LET task == tasks[t] IN
  /\ task.kind = "webhook" /\ task.pc = "audit"
  /\ AfterAudit(t)
  /\ UNCHANGED <<store, nreq, hist>>

\* The lookup of the charge fails: caught like every other store failure
WebhookLookupFail(t) ==
  /\ tasks[t].kind = "idle"
  /\ \A s \in Slots : s < t => tasks[s].kind # "idle"
  /\ nreq < MaxReq
  /\ nreq' = nreq + 1
  /\ \E type \in EventTypes, id \in {0} \cup DOMAIN deposit_charges :
       Return(t, [kind |-> "webhook", pc |-> "receive", type |-> type, id |-> id,
                  pmt |-> Fields(EmptyPmt), charge |-> NULL, tx |-> NULL,
                  req |-> [method |-> "POST", signature |-> Hmac(WEBHOOK_SECRET, "body"),
                           json |-> "ok", type |-> type, id |-> id]],
              Resp(200, "received, error"))
  /\ UNCHANGED <<store, hist>>

WebhookStep(t) ==
  \/ WebhookUpdate(t)
  \/ WebhookCredit(t)
  \/ WebhookRecord(t)
  \/ WebhookMark(t)
  \/ WebhookAudit(t)
  \/ WebhookNotify(t)

\* ------------------------------------------------- ledger-transaction-create
ALLOWED_ASSETS == Assets
ALLOWED_TYPES == {"deposit", "withdrawal"}
FeeDivisor == 1000        \* PLATFORM_FEE_PCT = 0.001: one unit per thousand
MinDepositUsd == 500
MinWithdrawalUsd == 100

\* parseFloat((n / d).toFixed(8)): the quotient rounded to the nearest unit
RoundDiv(n, d) == (2 * n + d) \div (2 * d)

\* fee_amount (lines 73-75)
FeeAmount(type, numAmount) ==
  IF type = "withdrawal" THEN RoundDiv(numAmount, FeeDivisor) ELSE 0

\* delta (line 84): deposits credit the amount, withdrawals debit amount + fee
TxDelta(type, numAmount) ==
  IF type = "deposit" THEN numAmount ELSE 0 - (numAmount + FeeAmount(type, numAmount))

\* `x || null` on a number
OrNull(x) == OrNum(x, NULL)

TxAmounts == {0, 400, 1000, 1500}
Prices == {1, 2}          \* USD per unit: the live quote, or the fallback
Sessions == {"none", "user", "admin"}   \* no valid cookie / a user / isAdmin

TxCreateRequests ==
  [session : {"user"}, sub : Users, type : ALLOWED_TYPES, asset : ALLOWED_ASSETS,
   amount : TxAmounts \ {0}, address : {"addr"}, price : Prices]
  \cup [session : {"none"}, sub : Users, type : {"deposit"}, asset : {"BTC"},
        amount : {1000}, address : {"addr"}, price : {1}]
  \cup [session : {"user"}, sub : Users, type : {"swap", "withdrawal"},
        asset : {"BTC", "DOGE"}, amount : {0, 1000}, address : {"", "addr"}, price : {1}]

\* A transactions row that does not keep the fee
UserTx_NoFee(id, u, type, asset, numAmount) ==
  [id |-> id, user_id |-> u, type |-> type, asset |-> asset, amount |-> numAmount,
   fee_amount |-> NULL,
   status |-> IF type = "deposit" THEN "processing" ELSE "pending",
   tx_hash |-> "null", notes |-> <<>>]

\* The transactions row the handler inserts (lines 104-119)
UserTx(id, u, type, asset, numAmount) ==
  [id |-> id, user_id |-> u, type |-> type, asset |-> asset, amount |-> numAmount,
   fee_amount |-> OrNull(FeeAmount(type, numAmount)),
   status |-> IF type = "deposit" THEN "processing" ELSE "pending",
   tx_hash |-> "null", notes |-> <<>>]

\* Lines 28-84: the session, the body, the user lookup (the first store call),
\* the price and the minimum amounts; the request then waits on upsert_balance.
TxCreateReceive(t, reqs) ==
  /\ tasks[t].kind = "idle"
  /\ \A s \in Slots : s < t => tasks[s].kind # "idle"
  /\ nreq < MaxReq
  /\ nreq' = nreq + 1
  /\ UNCHANGED <<store, hist>>
  /\ \E req \in reqs :
       LET task == [kind |-> "tx-create", pc |-> "debit", user_id |-> req.sub,
                    type |-> req.type, asset |-> req.asset, amount |-> req.amount,
                    tx |-> NULL]
           usd_value == req.amount * req.price
       IN IF req.session = "none" THEN Return(t, task, Resp(401, "Unauthorised"))
          ELSE IF req.type \notin ALLOWED_TYPES THEN Return(t, task, Resp(400, "Invalid type"))
          ELSE IF req.asset \notin ALLOWED_ASSETS
          THEN Return(t, task, Resp(400, "Unsupported asset"))
          ELSE IF req.amount <= 0
          THEN Return(t, task, Resp(400, "amount must be a positive number"))
          ELSE IF req.type = "withdrawal" /\ req.address = ""
          THEN Return(t, task, Resp(400, "address is required for withdrawals"))
          ELSE IF users[req.sub] = "absent" THEN Return(t, task, Resp(401, "Unauthorised"))
          ELSE IF users[req.sub] = "rejected"
          THEN Return(t, task, Resp(400, "Account suspended"))
          ELSE IF req.type = "deposit" /\ usd_value < MinDepositUsd
          THEN Return(t, task, Resp(400, "Minimum deposit"))
          ELSE IF req.type = "withdrawal" /\ usd_value < MinWithdrawalUsd
          THEN Return(t, task, Resp(400, "Minimum withdrawal"))
          ELSE tasks' = [tasks EXCEPT ![t] = task] /\ UNCHANGED last

\* A catch that rethrows every error of the rpc
DebitFailure_Rethrow(error) == Resp(502, error)

\* The catch around the rpc (lines 92-97) and the handler's catch (167-170)
DebitFailure(error) ==
  IF error = "Insufficient balance" THEN Resp(400, "Insufficient balance")
  ELSE Resp(502, error)

\* supabase.rpc('upsert_balance', ...) (lines 86-97)
TxCreateDebit(t) ==
  LET task == tasks[t]
      key == <<task.user_id, task.asset>>
      delta == TxDelta(task.type, task.amount)
      r == upsert_balance(balances, key, delta)
  IN
  /\ task.kind = "tx-create" /\ task.pc = "debit"
  /\ r.ok => r.bal[key] <= MaxBalance
  /\ balances' = r.bal
  /\ IF r.ok
     THEN /\ tasks' = [tasks EXCEPT ![t].pc = "record"]
          /\ applied' = [applied EXCEPT ![key] = @ + delta]
          /\ UNCHANGED last
     ELSE /\ Return(t, task, DebitFailure(r.error))
          /\ UNCHANGED applied
  /\ UNCHANGED <<users, strategy_allocations, deposit_charges, transactions, audit_log, nreq, credits, refunds>>

\* supabase.post('/rest/v1/transactions', ...) (lines 104-119)
TxCreateRecord(t) ==
  LET task == tasks[t]
      id == Len(transactions) + 1
  IN
  /\ task.kind = "tx-create" /\ task.pc = "record"
  /\ transactions' = Append(transactions,
       UserTx(id, task.user_id, task.type, task.asset, task.amount))
  /\ refunds' = Append(refunds, 0)
  /\ tasks' = [tasks EXCEPT ![t].pc = "audit", ![t].tx = id]
  /\ UNCHANGED <<users, strategy_allocations, balances, deposit_charges, audit_log, last, nreq, credits, applied>>

\* auditLog({action: `${type}_initiated`}) and the response (lines 122-166)
TxCreateAudit(t) ==
  LET task == tasks[t] IN
  /\ task.kind = "tx-create" /\ task.pc = "audit"
  /\ audit_log' = Append(audit_log, AuditRow(task.user_id, "initiated", task.tx))
  /\ Return(t, task, Resp(200, "transaction"))
  /\ UNCHANGED <<users, strategy_allocations, balances, deposit_charges, transactions, nreq, hist>>

\* An audit failure that escapes to the handler's catch
TxCreateAuditFail_Throw(t) ==
  LET task == tasks[t] IN
  /\ task.kind = "tx-create" /\ task.pc = "audit"
  /\ Return(t, task, Resp(502, "outage"))
  /\ UNCHANGED <<store, nreq, hist>>

\* The audit write fails: auditLog swallows the error (_db.js lines 294-297)
TxCreateAuditFail(t) ==
  LET task == tasks[t] IN
  /\ task.kind = "tx-create" /\ task.pc = "audit"
  /\ Return(t, task, Resp(200, "transaction"))
  /\ UNCHANGED <<store, nreq, hist>>

\* The rpc (for another reason than the balance) or the insert fails: the
\* handler's catch answers serverErr (lines 92-97, 167-170)
TxCreateThrow(t) ==
  LET task == tasks[t] IN
  /\ task.kind = "tx-create" /\ task.pc \in {"debit", "record"}
  /\ Return(t, task, DebitFailure("outage"))
  /\ UNCHANGED <<store, nreq, hist>>

TxCreateStep(t) ==
  \/ TxCreateDebit(t)
  \/ TxCreateRecord(t)
  \/ TxCreateAudit(t)

\* ---------------------------------------------------- admin-transaction-update
ALLOWED_STATUSES == {"completed", "processing", "failed", "cancelled"}

\* The refund condition (lines 135-136)
RefundDue(tx, status) ==
  /\ tx.type = "withdrawal"
  /\ status \in {"failed", "cancelled"}
  /\ tx.status \notin {"failed", "cancelled"}

\* A refund of the amount without the fee
RefundDelta_NoFee(tx) == tx.amount

\* p_delta of the refund (line 141): parseFloat(amount) + (parseFloat(fee_amount) || 0)
RefundDelta(tx) == tx.amount + OrNum(tx.fee_amount, 0)

\* The refunded flag of the response and of the audit row (lines 177, 203)
RefundedFlag(tx, status) ==
  tx.type = "withdrawal" /\ status \in {"failed", "cancelled"}

\* supabase.patch('/rest/v1/transactions', `id=eq.${id}`, {status, notes}) (150-158)
PatchTx(rows, id, status, note, tx) ==
  [i \in DOMAIN rows |->
     IF i = id
     THEN Patch(rows[i], [status |-> status,
                          notes |-> IF note = "null" THEN tx.notes
                                    ELSE Append(tx.notes, note)])
     ELSE rows[i]]

AdminUpdateRequests(statuses) ==
  [method : {"POST"}, session : {"admin"}, id : {0} \cup DOMAIN transactions,
   status : statuses, notes : {"null"}]
  \cup [method : {"POST"}, session : {"admin"}, id : DOMAIN transactions,
        status : statuses \cap {"cancelled"}, notes : {"note"}]
  \cup [method : {"POST"}, session : {"none", "user"}, id : {1},
        status : statuses \cap {"cancelled"}, notes : {"null"}]
  \cup [method : {"POST"}, session : {"admin"}, id : {1}, status : {"pending"},
        notes : {"null"}]
  \cup [method : {"OPTIONS"}, session : {"none"}, id : {1},
        status : statuses \cap {"cancelled"}, notes : {"null"}]
  \cup [method : {"GET"}, session : {"admin"}, id : {1},
        status : statuses \cap {"cancelled"}, notes : {"null"}]

\* requireAdmin (_admin-guard.js) and lines 110-136: the guard, the body, then
\* the read of the transaction (the first store call) and the refund decision.
AdminUpdateReceive(t, reqs) ==
  /\ tasks[t].kind = "idle"
  /\ \A s \in Slots : s < t => tasks[s].kind # "idle"
  /\ nreq < MaxReq
  /\ nreq' = nreq + 1
  /\ UNCHANGED <<store, hist>>
  /\ \E req \in reqs :
       LET task == [kind |-> "admin-update", pc |-> "patch", id |-> req.id,
                    status |-> req.status, notes |-> req.notes, tx |-> NULL,
                    session |-> req.session, method |-> req.method]
       IN requireAdmin(req.method, req.session, t, task,
            IF req.status \notin ALLOWED_STATUSES
            THEN Return(t, task, Resp(400, "Invalid status"))
            ELSE IF req.id \notin DOMAIN transactions
            THEN Return(t, task, Resp(400, "Transaction not found"))
            ELSE IF transactions[req.id].status = req.status
            THEN Return(t, task, Resp(400, "Transaction is already"))
            ELSE /\ tasks' = [tasks EXCEPT ![t] =
                      [task EXCEPT !.tx = transactions[req.id],
                                   !.pc = IF RefundDue(transactions[req.id], req.status)
                                          THEN "refund" ELSE "patch"]]
                 /\ UNCHANGED last)

\* supabase.rpc('upsert_balance', ...) of the refund (lines 137-146); an error is
\* logged and the handler goes on
AdminUpdateRefund(t) ==
  LET task == tasks[t]
      key == <<task.tx.user_id, task.tx.asset>>
      delta == RefundDelta(task.tx)
      r == upsert_balance(balances, key, delta)
  IN
  /\ task.kind = "admin-update" /\ task.pc = "refund"
  /\ r.ok => r.bal[key] <= MaxBalance
  /\ balances' = r.bal
  /\ IF r.ok
     THEN /\ refunds' = [refunds EXCEPT ![task.id] = @ + 1]
          /\ applied' = [applied EXCEPT ![key] = @ + delta]
     ELSE UNCHANGED <<refunds, applied>>
  /\ tasks' = [tasks EXCEPT ![t].pc = "patch"]
  /\ UNCHANGED <<users, strategy_allocations, deposit_charges, transactions, audit_log, last, nreq, credits>>

\* The status write (lines 150-158)
AdminUpdatePatch(t) ==
  LET task == tasks[t] IN
  /\ task.kind = "admin-update" /\ task.pc = "patch"
  /\ transactions' = PatchTx(transactions, task.id, task.status, task.notes, task.tx)
  /\ tasks' = [tasks EXCEPT ![t].pc = "audit"]
  /\ UNCHANGED <<users, strategy_allocations, balances, deposit_charges, audit_log, last, nreq, hist>>

\* The user lookup for the notification, auditLog and the response (lines 161-204)
AdminUpdateAudit(t) ==
  LET task == tasks[t]
      refunded == RefundedFlag(task.tx, task.status)
  IN
  /\ task.kind = "admin-update" /\ task.pc = "audit"
  /\ audit_log' = Append(audit_log,
       AuditRow("null", "admin_transaction_status_update",
                [transaction_id |-> task.id, prev_status |-> task.tx.status,
                 new_status |-> task.status, refunded |-> refunded]))
  /\ Return(t, task, [code |-> 200, body |-> "updated", refunded |-> refunded])
  /\ UNCHANGED <<users, strategy_allocations, balances, deposit_charges, transactions, nreq, hist>>

\* A refund failure that escapes to requireAdmin's catch
AdminUpdateRefundFail_Throw(t) ==
  LET task == tasks[t] IN
  /\ task.kind = "admin-update" /\ task.pc = "refund"
  /\ Return(t, task, Resp(502, "outage"))
  /\ UNCHANGED <<store, nreq, hist>>

\* The refund rpc fails: logged, and the handler goes on (lines 142-145)
AdminUpdateRefundFail(t) ==
  LET task == tasks[t] IN
  /\ task.kind = "admin-update" /\ task.pc = "refund"
  /\ tasks' = [tasks EXCEPT ![t].pc = "patch"]
  /\ UNCHANGED <<store, last, nreq, hist>>

\* The audit write fails: auditLog swallows the error (_db.js lines 294-297)
AdminUpdateAuditFail(t) ==
  LET task == tasks[t] IN
  /\ task.kind = "admin-update" /\ task.pc = "audit"
  /\ Return(t, task, [code |-> 200, body |-> "updated",
                      refunded |-> RefundedFlag(task.tx, task.status)])
  /\ UNCHANGED <<store, nreq, hist>>

AdminUpdateStep(t) ==
  \/ AdminUpdateRefund(t)
  \/ AdminUpdatePatch(t)
  \/ AdminUpdateAudit(t)

\* -------------------------------------------------------- admin-balance-adjust
AdjustDeltas == {0, 1500, -400}

AdjustRequests ==
  [method : {"POST"}, session : {"admin"}, userId : Users \cup {"u0"},
   asset : ALLOWED_ASSETS, delta : AdjustDeltas \ {0}, reason : {"fix"}]
  \cup [method : {"POST"}, session : {"none", "user"}, userId : Users, asset : {"BTC"},
        delta : {1500}, reason : {"fix"}]
  \cup [method : {"POST"}, session : {"admin"}, userId : Users, asset : {"BTC", "DOGE"},
        delta : {0, 1500}, reason : {"", "fix"}]
  \cup [method : {"OPTIONS"}, session : {"none"}, userId : Users, asset : {"BTC"},
        delta : {1500}, reason : {"fix"}]
  \cup [method : {"GET"}, session : {"admin"}, userId : Users, asset : {"BTC"},
        delta : {1500}, reason : {"fix"}]

\* The transactions row of an adjustment (lines 51-60)
AdjustTx(id, u, asset, numDelta) ==
  [id |-> id, user_id |-> u, type |-> IF numDelta > 0 THEN "deposit" ELSE "withdrawal",
   asset |-> asset, amount |-> IF numDelta < 0 THEN 0 - numDelta ELSE numDelta,
   fee_amount |-> NULL, status |-> "completed", tx_hash |-> "null",
   notes |-> <<"admin-adjustment">>]

\* requireAdmin and lines 16-36: the guard, the body and the user lookup
AdjustReceive(t, reqs) ==
  /\ tasks[t].kind = "idle"
  /\ \A s \in Slots : s < t => tasks[s].kind # "idle"
  /\ nreq < MaxReq
  /\ nreq' = nreq + 1
  /\ UNCHANGED <<store, hist>>
  /\ \E req \in reqs :
       LET task == [kind |-> "admin-adjust", pc |-> "delta", user_id |-> req.userId,
                    asset |-> req.asset, delta |-> req.delta, tx |-> NULL,
                    session |-> req.session, method |-> req.method]
       IN requireAdmin(req.method, req.session, t, task,
            IF req.asset \notin ALLOWED_ASSETS
            THEN Return(t, task, Resp(400, "Unsupported asset"))
            ELSE IF req.delta = 0 THEN Return(t, task, Resp(400, "delta must be non-zero"))
            ELSE IF req.reason = "" THEN Return(t, task, Resp(400, "reason is required"))
            ELSE IF req.userId \notin Users \/ users[req.userId] = "absent"
            THEN Return(t, task, Resp(400, "User not found"))
            ELSE tasks' = [tasks EXCEPT ![t] = task] /\ UNCHANGED last)

\* A catch that rethrows every error of the rpc
AdjustFailure_Rethrow(error) == Resp(502, error)

\* The catch around the rpc (lines 45-48) and requireAdmin's catch
AdjustFailure(error) ==
  IF error = "Insufficient balance"
  THEN Resp(400, "Insufficient balance - debit would go negative")
  ELSE Resp(502, error)

\* supabase.rpc('upsert_balance', ...) (lines 39-48)
AdjustDelta(t) ==
  LET task == tasks[t]
      key == <<task.user_id, task.asset>>
      r == upsert_balance(balances, key, task.delta)
  IN
  /\ task.kind = "admin-adjust" /\ task.pc = "delta"
  /\ r.ok => r.bal[key] <= MaxBalance
  /\ balances' = r.bal
  /\ IF r.ok
     THEN /\ tasks' = [tasks EXCEPT ![t].pc = "record"]
          /\ applied' = [applied EXCEPT ![key] = @ + task.delta]
          /\ UNCHANGED last
     ELSE /\ Return(t, task, AdjustFailure(r.error))
          /\ UNCHANGED applied
  /\ UNCHANGED <<users, strategy_allocations, deposit_charges, transactions, audit_log, nreq, credits, refunds>>

\* supabase.post('/rest/v1/transactions', ...) (lines 51-60)
AdjustRecord(t) ==
  LET task == tasks[t]
      id == Len(transactions) + 1
  IN
  /\ task.kind = "admin-adjust" /\ task.pc = "record"
  /\ transactions' = Append(transactions, AdjustTx(id, task.user_id, task.asset, task.delta))
  /\ refunds' = Append(refunds, 0)
  /\ tasks' = [tasks EXCEPT ![t].pc = "audit", ![t].tx = id]
  /\ UNCHANGED <<users, strategy_allocations, balances, deposit_charges, audit_log, last, nreq, credits, applied>>

\* auditLog (lines 63-76)
AdjustAudit(t) ==
  LET task == tasks[t] IN
  /\ task.kind = "admin-adjust" /\ task.pc = "audit"
  /\ audit_log' = Append(audit_log, AuditRow("null", "admin_balance_adjustment", task.tx))
  /\ tasks' = [tasks EXCEPT ![t].pc = "balance"]
  /\ UNCHANGED <<users, strategy_allocations, balances, deposit_charges, transactions, last, nreq, hist>>

\* The read of the new balance and the response (lines 92-105)
AdjustBalance(t) ==
  LET task == tasks[t] IN
  /\ task.kind = "admin-adjust" /\ task.pc = "balance"
  /\ Return(t, task, [code |-> 200, body |-> "adjusted",
                      new_balance |-> balances[<<task.user_id, task.asset>>]])
  /\ UNCHANGED <<store, nreq, hist>>

\* The audit write fails: auditLog swallows the error (_db.js lines 294-297)
AdjustAuditFail(t) ==
  LET task == tasks[t] IN
  /\ task.kind = "admin-adjust" /\ task.pc = "audit"
  /\ tasks' = [tasks EXCEPT ![t].pc = "balance"]
  /\ UNCHANGED <<store, last, nreq, hist>>

\* The rpc (for another reason than the balance), the insert or the balance
\* read fails: requireAdmin's catch answers 502
AdjustThrow(t) ==
  LET task == tasks[t] IN
  /\ task.kind = "admin-adjust" /\ task.pc \in {"delta", "record", "balance"}
  /\ Return(t, task, AdjustFailure("outage"))
  /\ UNCHANGED <<store, nreq, hist>>

AdjustStep(t) ==
  \/ AdjustDelta(t)
  \/ AdjustRecord(t)
  \/ AdjustAudit(t)
  \/ AdjustBalance(t)

\* ------------------------------------------------------------ admin-kyc-update
KYC_STATUSES == {"pending", "verified", "rejected"}

KycRequests ==
  [method : {"POST"}, session : {"admin"}, userId : Users \cup {"u0"},
   kyc_status : {"verified", "rejected", "unknown"}]
  \cup [method : {"POST"}, session : {"none", "user"}, userId : Users,
        kyc_status : {"verified"}]
  \cup [method : {"OPTIONS", "GET"}, session : {"none", "admin"}, userId : Users,
        kyc_status : {"verified"}]

\* requireAdmin and admin-users.js lines 99-114: the guard, the body, then the
\* read of the user (the first store call)
KycReceive(t, reqs) ==
  /\ tasks[t].kind = "idle"
  /\ \A s \in Slots : s < t => tasks[s].kind # "idle"
  /\ nreq < MaxReq
  /\ nreq' = nreq + 1
  /\ UNCHANGED <<store, hist>>
  /\ \E req \in reqs :
       LET task == [kind |-> "admin-kyc", pc |-> "patch", user_id |-> req.userId,
                    kyc_status |-> req.kyc_status, prev |-> "absent",
                    session |-> req.session, method |-> req.method]
       IN requireAdmin(req.method, req.session, t, task,
            IF req.kyc_status \notin KYC_STATUSES
            THEN Return(t, task, Resp(400, "Invalid status"))
            ELSE IF req.userId \notin Users \/ users[req.userId] = "absent"
            THEN Return(t, task, Resp(400, "User not found"))
            ELSE /\ tasks' = [tasks EXCEPT ![t] = [task EXCEPT !.prev = users[req.userId]]]
                 /\ UNCHANGED last)

\* supabase.patch('/rest/v1/users', `id=eq.${userId}`, {kyc_status}) (lines 119-123)
KycPatch(t) ==
  LET task == tasks[t] IN
  /\ task.kind = "admin-kyc" /\ task.pc = "patch"
  /\ users' = [users EXCEPT ![task.user_id] = task.kyc_status]
  /\ tasks' = [tasks EXCEPT ![t].pc = "audit"]
  /\ UNCHANGED <<strategy_allocations, balances, deposit_charges, transactions, audit_log, last, nreq, hist>>

\* auditLog({action: 'admin_kyc_update'}) and the response (lines 126-147)
KycAudit(t) ==
  LET task == tasks[t] IN
  /\ task.kind = "admin-kyc" /\ task.pc = "audit"
  /\ audit_log' = Append(audit_log,
       AuditRow("null", "admin_kyc_update",
                [target_user_id |-> task.user_id, prev_status |-> task.prev,
                 new_status |-> task.kyc_status]))
  /\ Return(t, task, Resp(200, "updated"))
  /\ UNCHANGED <<users, strategy_allocations, balances, deposit_charges, transactions, nreq, hist>>

KycStep(t) == KycPatch(t) \/ KycAudit(t)

\* ------------------------------------------------------------ specifications
\* The empty store
Init ==
  /\ users = [u \in Users |-> "absent"]
  /\ strategy_allocations = [k \in Users \X DEFAULT_STRATEGIES |-> NULL]
  /\ balances = [k \in Keys |-> NULL]
  /\ deposit_charges = <<>>
  /\ transactions = <<>>
  /\ audit_log = <<>>
  /\ tasks = [t \in Slots |-> Idle]
  /\ last = NoLast
  /\ nreq = 0
  /\ credits = [c \in 1..MaxCharges |-> 0]
  /\ refunds = <<>>
  /\ applied = [k \in Keys |-> 0]

\* The charges deposit-create can have inserted for a user
OneCharge == {<<NewCharge(1, u, a, c)>> : u \in Users, a \in Assets, c \in ChargeAmounts}
Funding == 1500

\* A store the handlers below start from: the user exists, with zero balance
\* rows (ledger-provision-user) or none (a balance insert that failed is
\* skipped silently, lines 59-68); the charges are
\* one of `charges`; when funded, an admin adjustment has credited Funding BTC
\* (its transaction and audit rows are there).
InitWith(funded, charges) ==
  /\ users = [u \in Users |-> "pending"]
  /\ strategy_allocations = [k \in Users \X DEFAULT_STRATEGIES |-> 0]
  /\ \E b \in {NULL, 0}, f \in funded :
       /\ balances = [k \in Keys |-> IF f /\ k = <<"u1", "BTC">> THEN Funding ELSE b]
       /\ applied = [k \in Keys |-> IF f /\ k = <<"u1", "BTC">> THEN Funding ELSE 0]
       /\ transactions = IF f THEN <<AdjustTx(1, "u1", "BTC", Funding)>> ELSE <<>>
       /\ refunds = IF f THEN <<0>> ELSE <<>>
       /\ audit_log = IF f THEN <<AuditRow("null", "admin_balance_adjustment", 1)>>
                      ELSE <<>>
  /\ deposit_charges \in charges
  /\ tasks = [t \in Slots |-> Idle]
  /\ last = NoLast
  /\ nreq = 0
  /\ credits = [c \in 1..MaxCharges |-> 0]

ChargeIds == {0} \cup DOMAIN deposit_charges

Setup ==
  \/ \E u \in Users : ProvisionUser(u)
  \/ \E u \in Users, a \in Assets, c \in ChargeAmounts : DepositCreate(u, a, c)

\* Webhook deliveries handled one at a time, no store failure
NextWebhookSeq ==
  \/ Quiescent /\ WebhookReceive(1, WebhookRequests(EventTypes, ChargeIds))
  \/ \E t \in Slots : WebhookStep(t)

InitCharge == InitWith({FALSE}, OneCharge)

SpecWebhookSeq == InitCharge /\ [][NextWebhookSeq]_vars

InitLedger == InitWith(BOOLEAN, {<<>>})

\* User and admin requests handled one at a time, no store failure
NextLedgerSeq ==
  \/ Quiescent /\ TxCreateReceive(1, TxCreateRequests)
  \/ Quiescent /\ AdminUpdateReceive(1, AdminUpdateRequests(ALLOWED_STATUSES))
  \/ Quiescent /\ AdjustReceive(1, AdjustRequests)
  \/ \E t \in Slots : TxCreateStep(t) \/ AdminUpdateStep(t) \/ AdjustStep(t)

SpecLedgerSeq == InitLedger /\ [][NextLedgerSeq]_vars

\* Every kind of request, handled one at a time, no store failure
Next ==
  \/ Setup
  \/ Quiescent /\ WebhookReceive(1, WebhookRequests(EventTypes, ChargeIds))
  \/ \E t \in Slots : WebhookStep(t)
  \/ NextLedgerSeq

InitAny == Init \/ InitWith({FALSE}, {<<>>} \cup OneCharge)

Spec == InitAny /\ [][Next]_vars



\* Webhook deliveries handled one at a time; any store call may fail
NextWebhookFail ==
  \/ Quiescent /\ WebhookReceive(1, WebhookRequests(EventTypes, ChargeIds))
  \/ \E t \in Slots : WebhookStep(t)
  \/ \E t \in Slots : Quiescent /\ t = 1 /\ WebhookLookupFail(t)
  \/ \E t \in Slots : WebhookThrow(t) \/ WebhookAuditFail(t)

SpecWebhookFail == InitCharge /\ [][NextWebhookFail]_vars

\* charge:confirmed deliveries only, one at a time, no store failure
ConfirmedOnly == {"charge:confirmed"}
NextConfirmedSeq ==
  \/ Quiescent /\ WebhookReceive(1, WebhookRequests(ConfirmedOnly, ChargeIds))
  \/ \E t \in Slots : WebhookStep(t)

SpecConfirmedSeq == InitCharge /\ [][NextConfirmedSeq]_vars

\* charge:confirmed deliveries handled concurrently, no store failure
NextConfirmedConc ==
  \/ \E t \in Slots : WebhookReceive(t, WebhookRequests(ConfirmedOnly, ChargeIds))
  \/ \E t \in Slots : WebhookStep(t)

SpecConfirmedConc == InitCharge /\ [][NextConfirmedConc]_vars

\* ------------------------------------------------------------------ claims
Bal(bal, key) == IF bal[key] = NULL THEN 0 ELSE bal[key]
ChargeKey(c) == <<deposit_charges[c].user_id, deposit_charges[c].asset>>
\* The event's payload reports a count that meets the charge's threshold
MeetsThreshold(pmt, charge) ==
  pmt.confirmations # NULL /\ pmt.confirmations >= charge.confirm_threshold
\* Slot t finishes a webhook request in this step
Finishes(t) == tasks[t].kind = "webhook" /\ tasks'[t].kind = "idle"

\* C1: over a sequence of charge:confirmed deliveries handled one after the
\* other with no failing store call, the balance delta is applied at most once;
\* when a delivery whose count meets the threshold has been processed, the delta
\* has been applied exactly once, the balance is the initial balance plus the
\* confirmed amount, and the charge is credited and completed; and it stays so
\* under every later delivery.
C1_CreditedExactlyOnce ==
  [][\A c \in DOMAIN deposit_charges :
       /\ credits'[c] <= 1
       /\ \A t \in Slots :
            ( /\ Finishes(t)
              /\ tasks[t].charge.id = c
              /\ MeetsThreshold(tasks[t].pmt, tasks[t].charge)
              /\ last'.resp.body = "received" )
            => /\ credits'[c] = 1
               /\ deposit_charges'[c].credited
               /\ deposit_charges'[c].status = "completed"
               /\ Bal(balances', ChargeKey(c)) = CreditDelta(tasks[t].pmt, tasks[t].charge)
       /\ (deposit_charges[c].credited /\ credits[c] = 1)
            => /\ deposit_charges'[c].credited
               /\ deposit_charges'[c].status = "completed"
               /\ credits'[c] = 1
               /\ balances' = balances]_vars

\* C1 witness: three deliveries handled, the delta applied once, the charge
\* credited and completed
C1_Witness ==
  /\ Quiescent
  /\ nreq = MaxReq
  /\ credits[1] = 1
  /\ deposit_charges[1].credited
  /\ deposit_charges[1].status = "completed"
  /\ Bal(balances, ChargeKey(1)) = 7
  /\ Len(transactions) = 1

\* C2: concurrent deliveries of a threshold-meeting charge:confirmed event
\* apply the balance delta for the charge at most once.
C2_NoDoubleCredit == \A c \in DOMAIN deposit_charges : credits[c] <= 1

\* C3: once the balance delta of a charge has been applied, no later delivery
\* applies it again, also when the insert or the credited patch failed.
C3_NoReapplyAfterFailure ==
  [][\A c \in DOMAIN deposit_charges :
       credits'[c] > credits[c] => credits[c] = 0]_vars

\* C8: credited turns true only in a step of a charge:confirmed delivery whose
\* payload reports a confirmation count >= the charge's confirm_threshold.
C8_CreditedOnlyAtThreshold ==
  [][\A c \in DOMAIN deposit_charges :
       (~deposit_charges[c].credited /\ deposit_charges'[c].credited)
       => \E t \in Slots :
            /\ tasks[t].kind = "webhook"
            /\ tasks[t].type = "charge:confirmed"
            /\ tasks[t].charge.id = c
            /\ MeetsThreshold(tasks[t].pmt, deposit_charges[c])]_vars

\* Credits, debits, refunds and adjustments on a funded user with a charge,
\* handled concurrently, no store failure.  The requests are the well-formed
\* ones: a threshold-meeting charge:confirmed event, deposits and withdrawals,
\* status updates to failed or cancelled, adjustments.
ConcWebhookRequests ==
  {r \in WebhookRequests(ConfirmedOnly, DOMAIN deposit_charges) :
     /\ r.method = "POST" /\ r.json = "ok"
     /\ r.signature = Hmac(WEBHOOK_SECRET, "body")
     /\ Len(r.payments) = 1
     /\ r.payments[1].confirmations \in {1, MaxConf} /\ r.payments[1].amount # NULL}
ConcTxCreateRequests ==
  {r \in TxCreateRequests :
     /\ r.session = "user" /\ r.type \in ALLOWED_TYPES /\ r.asset = "BTC"
     /\ r.amount \in {1000, 1500} /\ r.address # "" /\ r.price = 1}
ConcAdminUpdateRequests ==
  {r \in AdminUpdateRequests({"failed", "cancelled"}) :
     /\ r.method = "POST" /\ r.session = "admin"
     /\ r.id \in DOMAIN transactions /\ r.notes = "null"}
ConcAdjustRequests ==
  {r \in AdjustRequests :
     /\ r.method = "POST" /\ r.session = "admin" /\ r.userId \in Users
     /\ r.asset = "BTC" /\ r.delta # 0 /\ r.reason # ""}

NextLedgerConc ==
  \/ \E t \in Slots : WebhookReceive(t, ConcWebhookRequests)
  \/ \E t \in Slots : TxCreateReceive(t, ConcTxCreateRequests)
  \/ \E t \in Slots : AdminUpdateReceive(t, ConcAdminUpdateRequests)
  \/ \E t \in Slots : AdjustReceive(t, ConcAdjustRequests)
  \/ \E t \in Slots : WebhookStep(t) \/ TxCreateStep(t) \/ AdminUpdateStep(t) \/ AdjustStep(t)

InitFundedCharge ==
  InitWith({TRUE}, {<<NewCharge(1, "u1", "BTC", 5)>>})

SpecLedgerConc == InitFundedCharge /\ [][NextLedgerConc]_vars

\* C4: no step of a user's ledger-transaction-create request increases a balance.
C4_NoUserCredit ==
  [][\A t \in Slots :
       (tasks[t].kind = "tx-create" /\ tasks'[t] # tasks[t])
       => \A k \in Keys : Bal(balances', k) <= Bal(balances, k)]_vars

Live(tx) == tx.status \notin {"failed", "cancelled"}
\* What a transaction row stands for on the balance of key k
Signed(tx, k) ==
  IF <<tx.user_id, tx.asset>> # k \/ ~Live(tx) THEN 0
  ELSE IF tx.type = "deposit" THEN tx.amount
  ELSE 0 - (tx.amount + OrNum(tx.fee_amount, 0))
RECURSIVE SumSigned(_, _, _)
SumSigned(rows, n, k) ==
  IF n = 0 THEN 0 ELSE Signed(rows[n], k) + SumSigned(rows, n - 1, k)
Booked(k) == SumSigned(transactions, Len(transactions), k)

\* C5: when no request is in flight, every balance equals the deposits minus the
\* withdrawals (amount + fee) of the rows that are not failed or cancelled.
C5_Conservation ==
  Quiescent => \A k \in Keys : Bal(balances, k) = Booked(k)

\* C6: under every interleaving no balance is negative and each balance is the
\* sum of the deltas whose application succeeded.
C6_SerializedDeltas ==
  \A k \in Keys :
    /\ balances[k] # NULL => balances[k] >= 0
    /\ Bal(balances, k) = applied[k]

\* C6 witness: a webhook credit and a withdrawal debit were in flight together
\* and both deltas are in the balance
C6_Witness ==
  /\ credits[1] = 1
  /\ \E i \in DOMAIN transactions :
       transactions[i].type = "withdrawal" /\ transactions[i].status = "pending"
  /\ \E t \in Slots : tasks[t].kind = "webhook" /\ tasks[t].pc = "record"
  /\ \E t \in Slots : tasks[t].kind = "tx-create" /\ tasks[t].pc = "audit"
  /\ balances[<<"u1", "BTC">>] = Funding + 7 - 1001

\* The delta a request asks for, from the request alone
AskedDelta(task) ==
  IF task.kind = "admin-adjust" THEN task.delta
  ELSE IF task.type = "deposit" THEN task.amount
  ELSE 0 - (task.amount + RoundDiv(task.amount, FeeDivisor))

\* C7: when a handler calls upsert_balance with delta d on a balance b (0 for a
\* missing row), then if b + d >= 0 the row holds b + d and the handler goes
\* on, and otherwise the balances are unchanged and the caller answers with the
\* insufficient-balance failure.
C7_ApplyDelta ==
  [][\A t \in Slots :
       ( /\ tasks[t].kind \in {"tx-create", "admin-adjust"}
         /\ tasks[t].pc \in {"debit", "delta"}
         /\ tasks'[t] # tasks[t] )
       => LET key == <<tasks[t].user_id, tasks[t].asset>>
              b == Bal(balances, key)
              d == AskedDelta(tasks[t])
          IN IF b + d >= 0
             THEN /\ balances' = [balances EXCEPT ![key] = b + d]
                  /\ tasks'[t].pc = "record"
             ELSE /\ balances' = balances
                  /\ tasks'[t].kind = "idle"
                  /\ last'.resp.code = 400
                  /\ last'.resp.body \in
                       {"Insufficient balance",
                        "Insufficient balance - debit would go negative"}]_vars

\* C7 witness: a withdrawal larger than the balance was refused and the balance
\* is what it was
C7_Witness ==
  /\ last.kind = "tx-create"
  /\ last.resp = Resp(400, "Insufficient balance")
  /\ balances[<<"u1", "BTC">>] = Funding
  /\ balances[<<"u1", "ETH">>] = NULL
  /\ Len(transactions) = 1

\* C9: a status update that moves a pending or processing withdrawal to failed
\* or cancelled makes exactly one refund call, which adds amount + fee to the
\* balance; an update to failed or cancelled of a withdrawal that is already
\* failed or cancelled makes none; no other step of the update changes a balance.
C9_RefundOnTransition ==
  [][\A t \in Slots :
       /\ ( /\ tasks[t].kind = "idle" /\ tasks'[t].kind = "admin-update" )
          => LET row == transactions[tasks'[t].id] IN
             (row.type = "withdrawal" /\ tasks'[t].status \in {"failed", "cancelled"})
             => /\ row.status \in {"pending", "processing"} => tasks'[t].pc = "refund"
                /\ row.status \in {"failed", "cancelled"} => tasks'[t].pc = "patch"
       /\ ( /\ tasks[t].kind = "admin-update" /\ tasks'[t] # tasks[t] )
          => LET row == transactions[tasks[t].id]
                 key == <<row.user_id, row.asset>>
             IN IF tasks[t].pc = "refund"
                THEN /\ balances' = [balances EXCEPT ![key] =
                            Bal(balances, key) + row.amount + OrNum(row.fee_amount, 0)]
                     /\ tasks'[t].pc = "patch"
                ELSE balances' = balances]_vars

\* C9 witness: a pending withdrawal of 1000 (fee 1) was cancelled and then set
\* to failed; the balance is back at what it was before the withdrawal
C9_Witness ==
  /\ Quiescent
  /\ nreq = 3
  /\ Len(transactions) = 2
  /\ transactions[2].type = "withdrawal"
  /\ transactions[2].amount = 1000
  /\ transactions[2].fee_amount = 1
  /\ transactions[2].status = "failed"
  /\ refunds[2] = 1
  /\ balances[<<"u1", "BTC">>] = Funding

\* C10: the refund of a withdrawal is applied at most once, also when two
\* status updates that fail or cancel it are handled concurrently.
C10_NoDoubleRefund == \A i \in DOMAIN refunds : refunds[i] <= 1

\* ----------------------------------------------------- webhook responses
\* The signature header is the HMAC of the raw body under the shared secret
SignatureMatches(req) == req.signature = Hmac(WEBHOOK_SECRET, "body")
\* Slot t takes a webhook request in this step and the handler stays in flight
Accepts(t) == tasks[t].kind = "idle" /\ tasks'[t].kind = "webhook"
\* A webhook request arrives in this step and is answered before any store write
AnsweredAtOnce == nreq' = nreq + 1 /\ tasks' = tasks /\ last'.kind = "webhook"
\* A webhook request arrives in this step
WebhookArrives == nreq' = nreq + 1 /\ (AnsweredAtOnce \/ \E t \in Slots : Accepts(t))
\* The request that arrives
Arrived ==
  IF \E t \in Slots : Accepts(t)
  THEN tasks'[CHOOSE t \in Slots : Accepts(t)].req
  ELSE last'.req

\* C11: a POST whose signature header differs from the HMAC of the body (wrong
\* secret, wrong length or missing) is answered 401 at once, whatever the body
\* holds, and no table changes.
C11_BadSignatureIs401 ==
  [][(WebhookArrives /\ Arrived.method = "POST" /\ ~SignatureMatches(Arrived))
     => /\ AnsweredAtOnce
        /\ last'.resp.code = 401
        /\ store' = store]_vars

\* C12: a correctly signed, well-formed event whose charge id matches no row of
\* deposit_charges is answered 200 at once and no table changes, whatever the
\* event type.
C12_UnknownChargeAcknowledged ==
  [][(/\ WebhookArrives
      /\ Arrived.method = "POST" /\ SignatureMatches(Arrived) /\ Arrived.json = "ok"
      /\ \A i \in DOMAIN deposit_charges :
           deposit_charges[i].coinbase_charge_id # Arrived.id)
     => /\ AnsweredAtOnce
        /\ last'.resp.code = 200
        /\ store' = store]_vars

\* C12 witness: a charge exists, and a confirmed event for an id that is not its
\* id was acknowledged; the charge and the balances are as created
C12_Witness ==
  /\ last.kind = "webhook"
  /\ last.req.id = 0 /\ last.req.type = "charge:confirmed"
  /\ SignatureMatches(last.req) /\ last.req.json = "ok"
  /\ last.resp = Resp(200, "OK")
  /\ Len(deposit_charges) = 1 /\ deposit_charges[1].status = "pending"
  /\ transactions = <<>>
  /\ nreq = 1

\* The bodies that are a JSON acknowledgement: {received: true} with or
\* without an error field
JsonAcks == {"received", "received, error"}

\* C13: the webhook answers 401 only on a signature mismatch, 400 only on a
\* body that is not JSON, and otherwise 200 with a JSON acknowledgement, also
\* when a store call fails.
C13_ResponseCodes ==
  last.kind = "webhook" =>
    /\ last.resp.code = 401 => ~SignatureMatches(last.req)
    /\ last.resp.code = 400 => last.req.json = "invalid"
    /\ (last.req.method = "POST" /\ SignatureMatches(last.req) /\ last.req.json # "invalid")
       => (last.resp.code = 200 /\ last.resp.body \in JsonAcks)

\* ------------------------------------------------------- webhook event order
\* The payload carries a count and it is below the charge's threshold
BelowThreshold(pmt, charge) ==
  pmt.confirmations # NULL /\ pmt.confirmations < charge.confirm_threshold
\* Slot t's handler of a charge:confirmed event takes a step
ConfirmedSteps(t) ==
  /\ tasks[t].kind = "webhook" /\ tasks[t].type = "charge:confirmed"
  /\ tasks'[t] # tasks[t]

\* C14: every step of a charge:confirmed event whose count is below the
\* threshold, on an uncredited charge, leaves the balances, the transactions
\* and credited as they are and writes status confirming with the payload's
\* count; and no charge is credited more than once afterwards.
C14_BelowThresholdOnlyConfirming ==
  [][/\ \A t \in Slots :
          LET c == tasks[t].charge.id IN
          ( /\ ConfirmedSteps(t)
            /\ ~deposit_charges[c].credited
            /\ BelowThreshold(tasks[t].pmt, tasks[t].charge) )
          => /\ balances' = balances
             /\ transactions' = transactions
             /\ ~deposit_charges'[c].credited
             /\ deposit_charges'[c].status = "confirming"
             /\ deposit_charges'[c].confirmations = tasks[t].pmt.confirmations
     /\ \A c \in DOMAIN deposit_charges : credits'[c] <= 1]_vars

\* C16: the stored confirmations of a charge never decrease, and a step that
\* changes them writes the count of the payload of the event it handles.
C16_ConfirmationsMonotonic ==
  [][\A c \in DOMAIN deposit_charges :
       /\ deposit_charges'[c].confirmations >= deposit_charges[c].confirmations
       /\ deposit_charges'[c].confirmations # deposit_charges[c].confirmations
          => \E t \in Slots :
               /\ tasks[t].kind = "webhook" /\ tasks[t].charge.id = c
               /\ tasks[t].pmt.confirmations = deposit_charges'[c].confirmations]_vars

\* C17: a charge:confirmed event with a count below the threshold does not set
\* the status of a completed, failed, underpaid or resolved charge to confirming.
C17_NoRegressionToConfirming ==
  [][\A t \in Slots :
       LET c == tasks[t].charge.id IN
       ( /\ ConfirmedSteps(t)
         /\ BelowThreshold(tasks[t].pmt, tasks[t].charge)
         /\ deposit_charges[c].status \in {"completed", "failed", "underpaid", "resolved"} )
       => deposit_charges'[c].status # "confirming"]_vars

\* The deposit transactions the webhook inserted for charge c
ChargeRows(c) ==
  {i \in DOMAIN transactions :
     /\ Len(transactions[i].notes) = 2
     /\ transactions[i].notes[1] = "coinbase"
     /\ transactions[i].notes[2] = c}

\* C15: over a sequence of webhook events the webhook inserts at most one
\* deposit transaction per charge, and once the inserting handler has returned
\* the charge's transaction_id is the id of that transaction.
C15_OneTransactionPerCharge ==
  \A c \in DOMAIN deposit_charges :
    /\ Cardinality(ChargeRows(c)) <= 1
    /\ \A i \in ChargeRows(c) :
         /\ transactions[i].type = "deposit"
         /\ Quiescent => deposit_charges[c].transaction_id = i

\* C15 witness: the charge was credited, then resolved, then a charge:confirmed
\* event arrived again; there is one transaction and the charge points to it
C15_Witness ==
  /\ Quiescent /\ nreq = 3
  /\ deposit_charges[1].credited /\ deposit_charges[1].status = "resolved"
  /\ last.kind = "webhook" /\ last.req.type = "charge:confirmed" /\ last.req.id = 1
  /\ last.resp = Resp(200, "received")
  /\ ChargeRows(1) = {1}
  /\ deposit_charges[1].transaction_id = 1

\* C18: no step of any handler sets a charge's credited flag back to false.
C18_CreditedOneWay ==
  [][\A c \in DOMAIN deposit_charges :
       deposit_charges[c].credited => deposit_charges'[c].credited]_vars

\* C18 witness: a credited charge on which a charge:created event has since
\* written status pending; credited is still true
C18_Witness ==
  /\ Quiescent
  /\ deposit_charges # <<>>
  /\ deposit_charges[1].credited /\ deposit_charges[1].status = "pending"
  /\ last.kind = "webhook" /\ last.req.type = "charge:created"
  /\ credits[1] = 1

\* ---------------------------------------------------- ledger bookkeeping
\* The status a handler gives the transaction row it inserts
InitialStatus(task) ==
  IF task.kind = "tx-create"
  THEN (IF task.type = "deposit" THEN "processing" ELSE "pending")
  ELSE "completed"

\* C19: a handler step that changes a balance is followed, in that handler, by
\* the insert of one transaction row, and the row starts processing for a user
\* deposit, pending for a user withdrawal and completed for an adjustment or a
\* webhook credit.
C19_OneTransactionPerChange ==
  [][\A t \in Slots :
       /\ ( /\ tasks[t].kind # "idle" /\ tasks'[t] # tasks[t]
            /\ balances' # balances )
          => /\ tasks'[t].kind = tasks[t].kind
             /\ tasks'[t].pc = "record"
       /\ ( /\ tasks[t].kind # "idle" /\ tasks'[t] # tasks[t]
            /\ tasks[t].pc = "record" )
          => /\ Len(transactions') = Len(transactions) + 1
             /\ transactions'[Len(transactions')].status = InitialStatus(tasks[t])
             /\ tasks'[t].pc # "record"]_vars

\* C20: a withdrawal or a negative adjustment whose debit exceeds the balance
\* is answered 400 insufficient balance at the debit step; the balances and
\* the transactions are unchanged and the handler is over.
C20_OverdraftRejected ==
  [][\A t \in Slots :
       ( /\ tasks[t].kind \in {"tx-create", "admin-adjust"}
         /\ tasks[t].pc \in {"debit", "delta"}
         /\ tasks'[t] # tasks[t]
         /\ AskedDelta(tasks[t]) < 0
         /\ Bal(balances, <<tasks[t].user_id, tasks[t].asset>>) + AskedDelta(tasks[t]) < 0 )
       => /\ balances' = balances
          /\ transactions' = transactions
          /\ tasks'[t].kind = "idle"
          /\ last'.kind = tasks[t].kind
          /\ last'.resp.code = 400
          /\ last'.resp.body \in
               {"Insufficient balance",
                "Insufficient balance - debit would go negative"}]_vars

\* C20 witness: an adjustment of -400 on an empty balance was refused; there is
\* no transaction and the balances are as they were
C20_Witness ==
  /\ last.kind = "admin-adjust"
  /\ last.resp = Resp(400, "Insufficient balance - debit would go negative")
  /\ transactions = <<>>
  /\ \A k \in Keys : Bal(balances, k) = 0
  /\ nreq = 1

\* Every audited operation, handled one at a time on a funded user; the only
\* store call that may fail is the audit write.
AuditWebhookRequests ==
  {r \in WebhookRequests({"charge:confirmed", "charge:failed"}, ChargeIds) :
     /\ r.method = "POST" /\ r.json = "ok"
     /\ r.signature = Hmac(WEBHOOK_SECRET, "body")
     /\ \A n \in DOMAIN r.payments :
          r.payments[n].confirmations = MaxConf /\ r.payments[n].amount # NULL}

NextAuditFail ==
  \/ \E u \in Users, a \in Assets, c \in ChargeAmounts :
       DepositCreate(u, a, c) \/ DepositCreateAuditFail(u, a, c)
  \/ Quiescent /\ WebhookReceive(1, AuditWebhookRequests)
  \/ Quiescent /\ TxCreateReceive(1, ConcTxCreateRequests)
  \/ Quiescent /\ AdminUpdateReceive(1, ConcAdminUpdateRequests)
  \/ Quiescent /\ AdjustReceive(1, ConcAdjustRequests)
  \/ \E t \in Slots : WebhookStep(t) \/ TxCreateStep(t) \/ AdminUpdateStep(t) \/ AdjustStep(t)
  \/ \E t \in Slots : \/ WebhookAuditFail(t) \/ TxCreateAuditFail(t)
                       \/ AdminUpdateAuditFail(t) \/ AdjustAuditFail(t)

SpecAuditFail == InitWith({TRUE}, {<<>>}) /\ [][NextAuditFail]_vars

\* Slot t is at its audit write and moves in this step
AuditStep(t) ==
  /\ tasks[t].kind # "idle"
  /\ tasks[t].pc = "audit"
  /\ tasks'[t] # tasks[t]
\* The handlers that go on after the audit write, and where they go
AuditContinues(task) ==
  \/ task.kind = "admin-adjust"
  \/ task.kind = "webhook" /\ task.type = "charge:confirmed"
AfterAuditPc(task) == IF task.kind = "admin-adjust" THEN "balance" ELSE "notify"
\* The response of the handlers that answer after the audit write
AuditResponse(task) ==
  IF task.kind = "admin-update"
  THEN [code |-> 200, body |-> "updated",
        refunded |-> task.tx.type = "withdrawal" /\ task.status \in {"failed", "cancelled"}]
  ELSE IF task.kind = "tx-create" THEN Resp(200, "transaction")
  ELSE Resp(200, "received")

\* C21: whether or not the audit row is written, an audited operation (webhook
\* credit, webhook failure, transaction create, admin adjustment, admin status
\* update, charge creation) has the same outcome: the step of the audit write
\* changes no user, balance, charge or transaction row, and the handler goes on
\* or answers with the response fixed by the state before the write.
C21_AuditFailureHarmless ==
  [][/\ \A t \in Slots :
          AuditStep(t) =>
            /\ UNCHANGED <<users, strategy_allocations, balances, deposit_charges, transactions>>
            /\ IF AuditContinues(tasks[t])
               THEN /\ tasks'[t] = [tasks[t] EXCEPT !.pc = AfterAuditPc(tasks[t])]
                    /\ last' = last
               ELSE /\ tasks'[t] = Idle
                    /\ last'.kind = tasks[t].kind
                    /\ last'.resp = AuditResponse(tasks[t])
     /\ Len(deposit_charges') > Len(deposit_charges) =>
          /\ last' = [kind |-> "deposit-create", resp |-> Resp(200, "created")]
          /\ deposit_charges' = Append(deposit_charges,
                                       deposit_charges'[Len(deposit_charges')])
          /\ UNCHANGED <<users, strategy_allocations, balances, transactions>>]_vars

\* C21 witness: a withdrawal was created and answered 200 although its audit
\* row was not written
C21_Witness ==
  /\ Quiescent
  /\ nreq = 1
  /\ last.kind = "tx-create"
  /\ last.resp = Resp(200, "transaction")
  /\ Len(transactions) = 2
  /\ transactions[2].type = "withdrawal"
  /\ Len(audit_log) = 1
  /\ Bal(balances, <<"u1", "BTC">>) < Funding

\* Withdrawals and admin status updates handled one at a time on a funded
\* user; the only store call that may fail is the refund rpc.
NextRefundFail ==
  \/ Quiescent /\ TxCreateReceive(1, ConcTxCreateRequests)
  \/ Quiescent /\ AdminUpdateReceive(1, AdminUpdateRequests(ALLOWED_STATUSES))
  \/ \E t \in Slots : TxCreateStep(t) \/ AdminUpdateStep(t) \/ AdminUpdateRefundFail(t)

SpecRefundFail == InitWith({TRUE}, {<<>>}) /\ [][NextRefundFail]_vars

\* C22: in an admin status update whose refund delta fails, the handler still
\* writes the new status and answers 200: the refund step always goes on to
\* the status write, and a request that was due a refund and has applied none
\* ends with the transaction in the requested status, the balance not
\* refunded, and a 200 response.
C22_RefundFailureStillUpdates ==
  [][\A t \in Slots :
       tasks[t].kind = "admin-update" =>
         /\ (tasks[t].pc = "refund" /\ tasks'[t] # tasks[t]) =>
              /\ tasks'[t] = [tasks[t] EXCEPT !.pc = "patch"]
              /\ transactions' = transactions
         /\ ( /\ tasks'[t].kind = "idle"
              /\ tasks[t].pc = "audit"
              /\ RefundDue(tasks[t].tx, tasks[t].status)
              /\ refunds[tasks[t].id] = 0 ) =>
              /\ transactions'[tasks[t].id].status = tasks[t].status
              /\ last'.resp.code = 200
              /\ last'.resp.body = "updated"]_vars

\* C22 witness: a withdrawal was set to failed and answered 200 while its refund
\* was not applied: the balance is still the debited one
C22_Witness ==
  /\ Quiescent
  /\ last.kind = "admin-update"
  /\ last.resp.code = 200
  /\ Len(transactions) = 2
  /\ transactions[2].type = "withdrawal"
  /\ transactions[2].status = "failed"
  /\ refunds[2] = 0
  /\ Bal(balances, <<"u1", "BTC">>) = Funding - RefundDelta(transactions[2])

TerminalStatuses == {"completed", "failed", "cancelled"}

\* C23: an admin status update on a transaction that is already completed,
\* failed or cancelled changes neither a transaction row nor a balance.
C23_TerminalIsNoOp ==
  [][\A t \in Slots :
       ( /\ tasks[t].kind = "admin-update"
         /\ transactions[tasks[t].id].status \in TerminalStatuses )
       => /\ transactions' = transactions
          /\ balances' = balances]_vars

\* The three operations wrapped by requireAdmin, handled one at a time on a
\* funded user, with every kind of session
GuardAdjustRequests ==
  {r \in AdjustRequests : r.asset = "BTC" /\ r.userId \in Users /\ r.reason # ""}
NextAdminGuard ==
  \/ Quiescent /\ AdminUpdateReceive(1, AdminUpdateRequests(ALLOWED_STATUSES))
  \/ Quiescent /\ AdjustReceive(1, GuardAdjustRequests)
  \/ Quiescent /\ KycReceive(1, KycRequests)
  \/ \E t \in Slots : AdminUpdateStep(t) \/ AdjustStep(t) \/ KycStep(t)

SpecAdminGuard == InitWith({TRUE}, {<<>>}) /\ [][NextAdminGuard]_vars

\* Slot t takes up an admin request in this step
AdminAccepts(t) == tasks[t].kind = "idle" /\ tasks'[t].kind \in AdminKinds
\* An admin request arrives in this step, and its session
AdminArrives ==
  /\ nreq' = nreq + 1
  /\ \/ \E t \in Slots : AdminAccepts(t)
     \/ tasks' = tasks /\ last'.kind \in AdminKinds
ArrivedAdmin ==
  IF \E t \in Slots : AdminAccepts(t)
  THEN tasks'[CHOOSE t \in Slots : AdminAccepts(t)]
  ELSE last'
ArrivedSession == ArrivedAdmin.session

\* C24: a request to an operation wrapped by requireAdmin (balance adjust,
\* status update, KYC update) that carries no valid session is answered 401, and
\* one whose session is not an admin's is answered 403 (an OPTIONS preflight is
\* answered 204 before the session is read); in all these cases the handler
\* does not run and no row changes.
C24_AdminGuard ==
  [][(AdminArrives /\ ArrivedSession # "admin")
     => /\ tasks' = tasks
        /\ store' = store
        /\ last'.resp.code = IF ArrivedAdmin.method = "OPTIONS" THEN 204
                             ELSE IF ArrivedSession = "none" THEN 401 ELSE 403]_vars

\* C24 witness: three requests were handled; the last one, a balance adjustment
\* posted by a logged-in user who is no admin, was answered 403, and the store
\* is the initial one
C24_Witness ==
  /\ Quiescent
  /\ nreq = MaxReq
  /\ last.kind = "admin-adjust"
  /\ last.session = "user"
  /\ last.method = "POST"
  /\ last.resp.code = 403
  /\ Len(transactions) = 1
  /\ Len(audit_log) = 1
  /\ Bal(balances, <<"u1", "BTC">>) = Funding
  /\ users["u1"] = "pending"

\* Provisioning called at any point between the steps of concurrent deposits,
\* withdrawals and admin adjustments, from the empty store or a funded user
NextProvision ==
  \/ \E u \in Users : ProvisionUserAt(u)
  \/ \E t \in Slots : TxCreateReceive(t, ConcTxCreateRequests)
  \/ \E t \in Slots : AdjustReceive(t, ConcAdjustRequests)
  \/ \E t \in Slots : TxCreateStep(t) \/ AdjustStep(t)

SpecProvision == (Init \/ InitWith({TRUE}, {<<>>})) /\ [][NextProvision]_vars

\* A provisioning call is handled in this step, and its user
Provisions ==
  /\ Len(audit_log') = Len(audit_log) + 1
  /\ audit_log'[Len(audit_log')].action = "login"
ProvisionedUser == audit_log'[Len(audit_log')].user_id
\* The rows provisioning is there to create all exist for u
ProvisionedIn(us, bal, alloc, u) ==
  /\ us[u] # "absent"
  /\ \A a \in DEFAULT_ASSETS : bal[<<u, a>>] # NULL
  /\ \A g \in DEFAULT_STRATEGIES : alloc[<<u, g>>] # NULL
Provisioned(u) == ProvisionedIn(users, balances, strategy_allocations, u)

\* C25: a provisioning call, at any point, changes no existing balance amount
\* (the rows it adds are zero) and no charge or transaction; after it the
\* user, balance and allocation rows of its user exist; and on a user whose
\* rows exist already it changes no user, balance or allocation row: calling
\* it again yields the rows of calling it once.
C25_ProvisionIdempotent ==
  [][Provisions =>
       /\ \A k \in Keys :
            balances'[k] = IF balances[k] = NULL /\ k[1] = ProvisionedUser
                           THEN 0 ELSE balances[k]
       /\ UNCHANGED <<deposit_charges, transactions>>
       /\ ProvisionedIn(users', balances', strategy_allocations', ProvisionedUser)
       /\ Provisioned(ProvisionedUser) =>
            UNCHANGED <<users, balances, strategy_allocations>>]_vars

\* C25 witness: provisioning created the rows of u1, an adjustment credited
\* the BTC balance, and a second provisioning call left the balance as it was
C25_Witness ==
  /\ nreq = MaxReq
  /\ Len(audit_log) = 3
  /\ audit_log[1].action = "login"
  /\ audit_log[2].action = "admin_balance_adjustment"
  /\ audit_log[3].action = "login"
  /\ Provisioned("u1")
  /\ balances[<<"u1", "BTC">>] = 1500
  /\ balances[<<"u1", "ETH">>] = 0

\* C26: a charge:created event never changes the status of a charge: it
\* writes pending only onto a pending charge, and on a charge that has advanced
\* it is a no-op.
C26_CreatedKeepsStatus ==
  [][\A t \in Slots :
       (tasks[t].kind = "webhook" /\ tasks[t].type = "charge:created")
       => deposit_charges'[tasks[t].charge.id].status
            = deposit_charges[tasks[t].charge.id].status]_vars

\* C27: a charge:pending, charge:failed or charge:expired event on a completed
\* or failed charge changes neither its status, its confirmations nor its
\* network_tx.
C27_TerminalChargeUntouched ==
  [][\A t \in Slots :
       LET c == tasks[t].charge.id IN
       ( /\ tasks[t].kind = "webhook"
         /\ tasks[t].type \in {"charge:pending", "charge:failed", "charge:expired"}
         /\ deposit_charges[c].status \in {"completed", "failed"} )
       => /\ deposit_charges'[c].status = deposit_charges[c].status
          /\ deposit_charges'[c].confirmations = deposit_charges[c].confirmations
          /\ deposit_charges'[c].network_tx = deposit_charges[c].network_tx]_vars

\* Deposits, withdrawals and admin adjustments handled one at a time on a
\* funded user; any store call may fail
NextLedgerFail ==
  \/ Quiescent /\ TxCreateReceive(1, ConcTxCreateRequests)
  \/ Quiescent /\ AdjustReceive(1, ConcAdjustRequests)
  \/ \E t \in Slots : TxCreateStep(t) \/ AdjustStep(t)
  \/ \E t \in Slots : \/ TxCreateThrow(t) \/ TxCreateAuditFail(t)
                       \/ AdjustThrow(t) \/ AdjustAuditFail(t)

SpecLedgerFail == InitWith({TRUE}, {<<>>}) /\ [][NextLedgerFail]_vars

\* The request in the slot has applied its balance delta: it is past the rpc
DeltaApplied(task) == task.pc \in {"record", "audit", "balance"}

\* C28: a ledger-transaction-create or admin-balance-adjust request that is
\* answered with an error has not applied its balance delta: the balance is the
\* one before the request.
C28_NoPartialApply ==
  [][\A t \in Slots :
       ( /\ tasks[t].kind \in {"tx-create", "admin-adjust"}
         /\ tasks'[t].kind = "idle"
         /\ last'.resp.code >= 400 )
       => ~DeltaApplied(tasks[t])]_vars

\* The store after the funded user has created a withdrawal of 1000 BTC: the
\* balance is debited by amount + fee and the row is pending
InitWithdrawal ==
  /\ users = [u \in Users |-> "pending"]
  /\ strategy_allocations = [k \in Users \X DEFAULT_STRATEGIES |-> 0]
  /\ balances = [k \in Keys |-> IF k = <<"u1", "BTC">>
                                THEN Funding + TxDelta("withdrawal", 1000) ELSE 0]
  /\ applied = [k \in Keys |-> IF k = <<"u1", "BTC">>
                               THEN Funding + TxDelta("withdrawal", 1000) ELSE 0]
  /\ transactions = <<AdjustTx(1, "u1", "BTC", Funding),
                      UserTx(2, "u1", "withdrawal", "BTC", 1000)>>
  /\ refunds = <<0, 0>>
  /\ audit_log = <<AuditRow("null", "admin_balance_adjustment", 1),
                   AuditRow("u1", "initiated", 2)>>
  /\ deposit_charges = <<>>
  /\ tasks = [t \in Slots |-> Idle]
  /\ last = NoLast
  /\ nreq = 0
  /\ credits = [c \in 1..MaxCharges |-> 0]

\* Admin status updates of that withdrawal, handled one at a time
ReopenRequests ==
  {r \in AdminUpdateRequests(ALLOWED_STATUSES) :
     r.method = "POST" /\ r.session = "admin" /\ r.id = 2 /\ r.notes = "null"}
NextReopen ==
  \/ Quiescent /\ AdminUpdateReceive(1, ReopenRequests)
  \/ \E t \in Slots : AdminUpdateStep(t)

SpecReopen == InitWithdrawal /\ [][NextReopen]_vars

\* C29: over every sequence of admin status updates of a withdrawal, the total
\* refunded for it never exceeds its amount + fee.
C29_RefundBounded ==
  \A i \in DOMAIN transactions :
    transactions[i].type = "withdrawal" =>
      refunds[i] * RefundDelta(transactions[i])
        <= transactions[i].amount + OrNum(transactions[i].fee_amount, 0)

\* C30: the credit path writes the balance delta, then the deposit
\* transaction, then credited = true; so in every state, also after a store
\* call of the path has failed, a credited charge has had its delta applied and
\* has its deposit transaction.
C30_CreditedImpliesApplied ==
  \A c \in DOMAIN deposit_charges :
    deposit_charges[c].credited =>
      /\ credits[c] >= 1
      /\ ChargeRows(c) # {}
      /\ deposit_charges[c].transaction_id \in ChargeRows(c)

\* C30 witness: a first delivery failed after the delta, a second one went
\* through: the charge is credited and has its transaction
C30_Witness ==
  /\ Quiescent
  /\ deposit_charges[1].credited
  /\ credits[1] = 2
  /\ Cardinality(ChargeRows(1)) = 1
  /\ deposit_charges[1].transaction_id = 1

\* The event types the handler's switch has a case for
HandledTypes == {"charge:created", "charge:pending", "charge:confirmed",
                 "charge:failed", "charge:expired", "charge:delayed",
                 "charge:resolved"}

\* C31: a correctly signed event of a type the handler has no case for, for a
\* known charge, is answered 200 at once and changes no table: the charge row,
\* the balances and the transactions stay as they are.
C31_UnknownTypeIgnored ==
  [][( /\ WebhookArrives
       /\ Arrived.method = "POST" /\ SignatureMatches(Arrived) /\ Arrived.json = "ok"
       /\ Arrived.type \notin HandledTypes
       /\ ChargesByCoinbaseId(deposit_charges, Arrived.id) # {} )
     => /\ AnsweredAtOnce
        /\ last'.resp = Resp(200, "received")
        /\ store' = store]_vars

\* C31 witness: an event of an unknown type for charge 1, which an earlier
\* event had moved to detected, was answered 200 and the charge is still detected
C31_Witness ==
  /\ Quiescent
  /\ nreq = 2
  /\ last.kind = "webhook"
  /\ last.req.type = "charge:other"
  /\ last.req.id = 1
  /\ last.req.json = "ok"
  /\ SignatureMatches(last.req)
  /\ last.resp = Resp(200, "received")
  /\ deposit_charges[1].status = "detected"
  /\ transactions = <<>>

\* deposit-create requests of a provisioned user, handled concurrently
InitCreate ==
  /\ users = [u \in Users |-> "pending"]
  /\ strategy_allocations = [k \in Users \X DEFAULT_STRATEGIES |-> 0]
  /\ balances = [k \in Keys |-> 0]
  /\ applied = [k \in Keys |-> 0]
  /\ deposit_charges = <<>>
  /\ transactions = <<>>
  /\ refunds = <<>>
  /\ audit_log = <<>>
  /\ tasks = [t \in Slots |-> Idle]
  /\ last = NoLast
  /\ nreq = 0
  /\ credits = [c \in 1..MaxOpenCharges |-> 0]

NextCreateConc ==
  \/ \E t \in Slots : DepositCreateReceive(t, DepositCreateRequests)
  \/ \E t \in Slots : DepositCreateStep(t)

SpecCreateConc == InitCreate /\ [][NextCreateConc]_vars

\* C32: for each user and asset there is at most one pending charge, also when
\* two create requests for the same user and asset are handled concurrently.
C32_OnePendingCharge ==
  \A u \in Users, a \in Assets :
    Cardinality(PendingCharges(deposit_charges, u, a)) <= 1

\* C33: a charge whose status is completed is credited, and the status becomes
\* completed only in the write of the credit path that sets credited = true.
C33_CompletedIsCredited ==
  [][\A c \in DOMAIN deposit_charges :
       /\ deposit_charges'[c].status = "completed" => deposit_charges'[c].credited
       /\ ( /\ deposit_charges[c].status # "completed"
            /\ deposit_charges'[c].status = "completed" )
          => /\ ~deposit_charges[c].credited
             /\ \E t \in Slots :
                  /\ tasks[t].kind = "webhook" /\ tasks[t].pc = "mark"
                  /\ tasks[t].charge.id = c]_vars

\* C33 witness: the first delivery, a threshold-meeting charge:confirmed event,
\* has completed and credited the charge
C33_Witness ==
  /\ Quiescent
  /\ nreq = 1
  /\ last.kind = "webhook"
  /\ last.resp = Resp(200, "received")
  /\ deposit_charges[1].status = "completed"
  /\ deposit_charges[1].credited
  /\ credits[1] = 1

\* Threshold-meeting or early charge:confirmed events and admin status updates
\* of the transactions they insert, handled one at a time, no store failure
NextCreditedTx ==
  \/ Quiescent /\ WebhookReceive(1, ConcWebhookRequests)
  \/ Quiescent /\ AdminUpdateReceive(1, ConcAdminUpdateRequests)
  \/ \E t \in Slots : WebhookStep(t) \/ AdminUpdatePatch(t) \/ AdminUpdateAudit(t)

SpecCreditedTx == InitCharge /\ [][NextCreditedTx]_vars

\* C34: a credited charge has a transaction_id that refers to a deposit
\* transaction with status completed, of the charge's user and asset, whose
\* amount is the delta applied for the charge (here the whole balance).
C34_CreditedHasTransaction ==
  \A c \in DOMAIN deposit_charges :
    deposit_charges[c].credited =>
      LET id == deposit_charges[c].transaction_id IN
      /\ id \in DOMAIN transactions
      /\ transactions[id].type = "deposit"
      /\ transactions[id].status = "completed"
      /\ transactions[id].user_id = deposit_charges[c].user_id
      /\ transactions[id].asset = deposit_charges[c].asset
      /\ transactions[id].amount = Bal(balances, ChargeKey(c))

\* C35: once the status of a charge is failed, no step applies the balance delta
\* for it or sets its status to completed.
C35_FailedNeverCredited ==
  [][\A c \in DOMAIN deposit_charges :
       deposit_charges[c].status = "failed"
       => /\ credits'[c] = credits[c]
          /\ deposit_charges'[c].status # "completed"]_vars

\* C36: the refunded flag of the response of an admin status update is true
\* exactly when the request applied a refund delta, which (no store call
\* failing) it does exactly when the refund was due.
C36_RefundedFlagExact ==
  [][\A t \in Slots :
       ( /\ tasks[t].kind = "admin-update"
         /\ tasks[t].pc = "audit"
         /\ tasks'[t].kind = "idle" )
       => /\ last'.resp.refunded = RefundDue(tasks[t].tx, tasks[t].status)
          /\ audit_log'[Len(audit_log')].meta.refunded = last'.resp.refunded]_vars

\* The provider delivers a threshold-meeting charge:confirmed event for the
\* charge and delivers it again only while the last answer was not a 2xx; the
\* store may fail while the first delivery is processed and is available
\* afterwards.
ThresholdRequests ==
  {r \in ConcWebhookRequests : r.payments[1].confirmations = MaxConf}
Unacknowledged ==
  nreq = 0 \/ (last.kind = "webhook" /\ last.resp.code \notin 200..299)
ProviderDelivers ==
  /\ Quiescent
  /\ Unacknowledged
  /\ WebhookReceive(1, ThresholdRequests)
StoreDown(t) == nreq = 1 /\ (WebhookThrow(t) \/ WebhookAuditFail(t))
\* The steps of the credit path
CreditPath(t) ==
  \/ WebhookCredit(t) \/ WebhookRecord(t) \/ WebhookMark(t)
  \/ WebhookAudit(t) \/ WebhookNotify(t)

NextRedelivery ==
  \/ ProviderDelivers
  \/ \E t \in Slots : CreditPath(t)
  \/ \E t \in Slots : StoreDown(t)

\* Every handler in flight runs on, and the provider does deliver what it has
\* to deliver
SpecRedelivery ==
  /\ InitCharge
  /\ [][NextRedelivery]_vars
  /\ WF_vars(ProviderDelivers)
  /\ WF_vars(\E t \in Slots : CreditPath(t))

\* C37: once the threshold-meeting charge:confirmed event has been delivered,
\* the charge is eventually credited, also when a store call failed while the
\* first delivery was processed.
C37_EventuallyCredited ==
  (nreq > 0) ~> (\A c \in DOMAIN deposit_charges : deposit_charges[c].credited)

\* ------------------------------------------------ withdraw-then-cancel round trip
WithdrawalRequests == {r \in TxCreateRequests : r.type = "withdrawal"}

\* Withdrawals of a funded user and admin updates that fail or cancel them,
\* handled one at a time, no store failure
NextRoundTrip ==
  \/ Quiescent /\ TxCreateReceive(1, WithdrawalRequests)
  \/ Quiescent /\ AdminUpdateReceive(1, AdminUpdateRequests({"failed", "cancelled"}))
  \/ \E t \in Slots : TxCreateStep(t) \/ AdminUpdateStep(t)

SpecRoundTrip == InitWith({TRUE}, {<<>>}) /\ [][NextRoundTrip]_vars

\* What the withdrawals of `key` that are still pending in rows[1..n] debited
\* when they were created
RECURSIVE Held(_, _, _)
Held(rows, key, n) ==
  IF n = 0 THEN 0
  ELSE Held(rows, key, n - 1)
       + IF /\ rows[n].type = "withdrawal"
            /\ <<rows[n].user_id, rows[n].asset>> = key
            /\ rows[n].status = "pending"
         THEN TxDelta("withdrawal", rows[n].amount)
         ELSE 0

\* C38: a withdrawal debits amount + fee when it is created and an admin update
\* that fails or cancels it while it is pending refunds the same amount: between
\* requests every balance is its value before the withdrawals minus what the
\* still pending withdrawals debited, so once a withdrawal is failed or cancelled
\* the balance is exactly what it was before it, also when the fee is zero and
\* stored as null.
C38_RoundTrip ==
  Quiescent =>
    \A key \in Keys :
      Bal(balances, key) =
        (IF key = <<"u1", "BTC">> THEN Funding ELSE 0)
        + Held(transactions, key, Len(transactions))

\* C38 witness: a withdrawal of 400 (fee 0, stored as null) was created, then
\* cancelled while pending and refunded; the balance is back at Funding
C38_Witness ==
  /\ Quiescent
  /\ Len(transactions) = 2
  /\ transactions[2].type = "withdrawal"
  /\ transactions[2].amount = 400
  /\ transactions[2].fee_amount = NULL
  /\ transactions[2].status = "cancelled"
  /\ refunds[2] = 1
  /\ balances[<<"u1", "BTC">>] = Funding
  /\ last.resp.code = 200

====
